---------------------------- MODULE Spec2Model ----------------------------
(***************************************************************************)
(* A model of the resume-customization backend: the LLM gateway            *)
(* (AIService._get_llm_response), the customization engine                 *)
(* (AIService.customize_resume and its helpers) and the ATS scorer         *)
(* (ResumeParser.calculate_ats_score / parse_resume).                      *)
(*                                                                         *)
(* Python strings are sequences of one-character strings, so that          *)
(* substring tests, lower(), strip() and f-string concatenation are        *)
(* computed as the code computes them.                                     *)
(***************************************************************************)
EXTENDS Integers, Sequences, FiniteSets, TLC

VARIABLES
    openai_api_key,   \* AIService.openai_api_key: the OPENAI_API_KEY variable
    gemini_api_key,   \* AIService.gemini_api_key: the GEMINI_API_KEY variable
    gw_pc,            \* position inside _get_llm_response
    model_idx,        \* index into models_to_try of the next Gemini attempt
    last_error,       \* the local last_error of _get_llm_response
    attempts,         \* provider attempts issued by the current call, in order
    gw_result,        \* the string returned by the current call
    gw_calls,         \* number of calls started so far
    resume_data,      \* customize_resume: the resume_data argument
    job_description,  \* customize_resume: the job_description argument
    cz_pc,            \* position inside customize_resume
    cz_i,             \* index of the entry the current loop is at
    enhanced_projects,    \* the list _enhance_projects builds
    enhanced_experience,  \* the list _enhance_experience builds
    relevance_score,  \* the local relevance_score of customize_resume
    missing_skills,   \* the local missing_skills of customize_resume
    llm_calls,        \* the _get_llm_response calls made so far, in order,
                      \* each with the string it returned
    cz_result,        \* the value customize_resume returns
    upload_text,      \* what the text of the uploaded resume holds
    pr_pc,            \* position of the upload: uploaded, parsed, rescored
    parsed_data,      \* the dictionary parse_resume returns
    ats_again,        \* the result of a further calculate_ats_score call
    svc_call,         \* a call of a service method: its name and arguments
    svc_pc,           \* position of that call: called, returned, raised
    svc_ret,          \* the value the call returned
    db,               \* the tables: the rows of each and the last id it gave out
    request,          \* the customize request whose handler is running
    last_response,    \* what the last request was and how it was answered
    files             \* the generated files: the path and the document of each

gwVars == <<openai_api_key, gemini_api_key, gw_pc, model_idx, last_error,
            attempts, gw_result, gw_calls>>

czVars == <<resume_data, job_description, cz_pc, cz_i, enhanced_projects,
            enhanced_experience, relevance_score, missing_skills, llm_calls,
            cz_result>>

prVars == <<upload_text, pr_pc, parsed_data, ats_again>>

svcVars == <<svc_call, svc_pc, svc_ret>>

dbVars == <<db, request, last_response, files>>

vars == <<gwVars, czVars, prVars, svcVars, dbVars>>

\* What the actions of one component leave alone; the handlers other than
\* those of the customize router write no file.
gwOthers  == <<czVars, prVars, svcVars, dbVars>>
czOthers  == <<gwVars, prVars, svcVars, dbVars>>
prOthers  == <<gwVars, czVars, svcVars, dbVars>>
svcOthers == <<gwVars, czVars, prVars, dbVars>>
dbOthers  == <<gwVars, prVars, svcVars, files>>

---------------------------------------------------------------------------
(* Bounds of the model.                                                    *)

\* Number of _get_llm_response calls one behaviour makes.
MaxCalls == 2

\* Longest project list and longest experience list of a customized resume.
MaxProjects == 2
MaxExperience == 2

\* The inputs built from the full vocabulary: at least MinScaleRequired
\* required skills, at most MaxScaleSkills resume skills.
MinScaleRequired == 45
MaxScaleSkills == 28

\* Most skills extract_skills finds in an uploaded resume.
MaxParsedSkills == 6

---------------------------------------------------------------------------
(* Python strings.                                                         *)

Whitespace == {" ", "\n", "\t"}

\* str.lower() on one character (the letters the model's strings use).
LowerChar(c) ==
    CASE c = "A" -> "a" [] c = "B" -> "b" [] c = "C" -> "c" [] c = "D" -> "d"
      [] c = "E" -> "e" [] c = "F" -> "f" [] c = "G" -> "g" [] c = "H" -> "h"
      [] c = "I" -> "i" [] c = "J" -> "j" [] c = "K" -> "k" [] c = "L" -> "l"
      [] c = "M" -> "m" [] c = "N" -> "n" [] c = "O" -> "o" [] c = "P" -> "p"
      [] c = "Q" -> "q" [] c = "R" -> "r" [] c = "S" -> "s" [] c = "T" -> "t"
      [] c = "U" -> "u" [] c = "V" -> "v" [] c = "W" -> "w" [] c = "X" -> "x"
      [] c = "Y" -> "y" [] c = "Z" -> "z" [] OTHER -> c

UpperChar(c) ==
    CASE c = "a" -> "A" [] c = "b" -> "B" [] c = "c" -> "C" [] c = "d" -> "D"
      [] c = "e" -> "E" [] c = "f" -> "F" [] c = "g" -> "G" [] c = "h" -> "H"
      [] c = "i" -> "I" [] c = "j" -> "J" [] c = "k" -> "K" [] c = "l" -> "L"
      [] c = "m" -> "M" [] c = "n" -> "N" [] c = "o" -> "O" [] c = "p" -> "P"
      [] c = "q" -> "Q" [] c = "r" -> "R" [] c = "s" -> "S" [] c = "t" -> "T"
      [] c = "u" -> "U" [] c = "v" -> "V" [] c = "w" -> "W" [] c = "x" -> "X"
      [] c = "y" -> "Y" [] c = "z" -> "Z" [] OTHER -> c

IsLetter(c) == LowerChar(c) # c \/ UpperChar(c) # c

\* str.title(): a letter is upper-cased when it starts the string or follows
\* a character that is no letter, and lower-cased otherwise.
Title(s) ==
    [i \in 1..Len(s) |->
        IF i = 1 \/ ~IsLetter(s[i - 1]) THEN UpperChar(s[i]) ELSE LowerChar(s[i])]

\* str.lower()
Lower(s) == [i \in 1..Len(s) |-> LowerChar(s[i])]

\* a in b  (Python's substring test; the empty string is in every string)
IsSubstr(a, b) ==
    \E i \in 0..(Len(b) - Len(a)) : \A k \in 1..Len(a) : b[i + k] = a[k]

\* str.strip(): leading and trailing whitespace removed
RECURSIVE LStrip(_)
LStrip(s) ==
    IF s # <<>> /\ Head(s) \in Whitespace THEN LStrip(Tail(s)) ELSE s

RECURSIVE RStrip(_)
RStrip(s) ==
    IF s # <<>> /\ s[Len(s)] \in Whitespace
    THEN RStrip(SubSeq(s, 1, Len(s) - 1)) ELSE s

Strip(s) == RStrip(LStrip(s))

DigitChar(d) ==
    CASE d = 0 -> "0" [] d = 1 -> "1" [] d = 2 -> "2" [] d = 3 -> "3"
      [] d = 4 -> "4" [] d = 5 -> "5" [] d = 6 -> "6" [] d = 7 -> "7"
      [] d = 8 -> "8" [] d = 9 -> "9"

\* f"{n}" for a non-negative integer
RECURSIVE IntToText(_)
IntToText(n) ==
    IF n < 10 THEN <<DigitChar(n)>>
    ELSE IntToText(n \div 10) \o <<DigitChar(n % 10)>>

\* Python truthiness of a list or string: non-empty.
NonEmpty(s) == Len(s) > 0

Min(a, b) == IF a <= b THEN a ELSE b

Reverse(s) == [i \in 1..Len(s) |-> s[Len(s) + 1 - i]]

\* The duplicate-free lists over a set (what list(set(...)) can return).
DupFreeSeqs(S) ==
    UNION { { q \in [1..n -> S] : \A i, j \in 1..n : i # j => q[i] # q[j] } :
            n \in 0..Cardinality(S) }

\* The lists of at most n distinct entries of S.
SeqsUpTo(S, n) == { q \in DupFreeSeqs(S) : Len(q) <= n }

---------------------------------------------------------------------------
(* Python float arithmetic (IEEE 754 binary64, round to nearest even), as  *)
(* far as int((m / n) * 100) needs it.  Integers wider than the model      *)
(* checker's are kept as bit sequences, least significant bit first.       *)

\* Bits of a binary64 significand.
MantissaBits == 53

\* m doubled until n <= num < 2n (for 0 < m <= n): m / n = (num / n) / 2^shift
RECURSIVE Normalise(_, _, _)
Normalise(m, n, shift) ==
    IF m >= n THEN [num |-> m, shift |-> shift]
    ELSE Normalise(2 * m, n, shift + 1)

\* Long division: k further quotient bits (most significant first) after
\* remainder r, and the remainder left.
RECURSIVE DivBits(_, _, _, _)
DivBits(r, n, k, acc) ==
    IF k = 0 THEN [bits |-> acc, rem |-> r]
    ELSE LET b == IF 2 * r >= n THEN 1 ELSE 0
         IN  DivBits(2 * r - b * n, n, k - 1, Append(acc, b))

RECURSIVE BigInc(_)
BigInc(b) ==
    IF b = <<>> THEN <<1>>
    ELSE IF Head(b) = 0 THEN <<1>> \o Tail(b)
    ELSE <<0>> \o BigInc(Tail(b))

\* b * k + c for a small k
RECURSIVE BigMulSmall(_, _, _)
BigMulSmall(b, k, c) ==
    IF b = <<>>
    THEN IF c = 0 THEN <<>> ELSE <<c % 2>> \o BigMulSmall(<<>>, k, c \div 2)
    ELSE LET t == Head(b) * k + c
         IN  <<t % 2>> \o BigMulSmall(Tail(b), k, t \div 2)

\* b / 2^d rounded to the nearest integer, ties to even
BigRoundShift(b, d) ==
    IF d <= 0 THEN b
    ELSE LET kept   == SubSeq(b, d + 1, Len(b))
             sticky == \E i \in 1..(d - 1) : b[i] = 1
             up     == b[d] = 1 /\ (sticky \/ (kept # <<>> /\ kept[1] = 1))
         IN  IF up THEN BigInc(kept) ELSE kept

RECURSIVE BigToInt(_)
BigToInt(b) == IF b = <<>> THEN 0 ELSE Head(b) + 2 * BigToInt(Tail(b))

\* int((m / n) * 100) for integers 0 <= m <= n, n > 0:
\* the quotient is rounded to a double, its product with 100 is rounded to a
\* double, and int() truncates.
PercentOf(m, n) ==
    IF m = 0 THEN 0
    ELSE LET nm   == Normalise(m, n, 0)
             dv   == DivBits(nm.num - n, n, MantissaBits - 1, <<1>>)
             q0   == Reverse(dv.bits)
             q    == IF 2 * dv.rem > n \/ (2 * dv.rem = n /\ q0[1] = 1)
                     THEN BigInc(q0) ELSE q0
             \* m / n as a double is q * 2^-(shift + MantissaBits - 1)
             p    == BigMulSmall(q, 100, 0)
             drop == Len(p) - MantissaBits
             y    == BigRoundShift(p, drop)
             \* the product as a double is y * 2^(drop - shift - MantissaBits + 1)
             sh   == nm.shift + MantissaBits - 1 - drop
         IN  BigToInt(SubSeq(y, sh + 1, Len(y)))

---------------------------------------------------------------------------
(* The LLM gateway: AIService.__init__ and AIService._get_llm_response.    *)

\* The fallback string of _get_llm_response.
NotConfiguredMsg == <<
    "A","I"," ","s","e","r","v","i","c","e"," ","n","o","t"," ","c","o","n","f","i","g",
    "u","r","e","d","."," ","P","l","e","a","s","e"," ","s","e","t"," ","O","P","E","N",
    "A","I","_","A","P","I","_","K","E","Y"," ","o","r"," ","G","E","M","I","N","I","_",
    "A","P","I","_","K","E","Y"," ","i","n"," ","e","n","v","i","r","o","n","m","e","n",
    "t"," ","v","a","r","i","a","b","l","e","s","." >>

\* The prefix of the string returned when every Gemini model failed.
AllFailedPrefix == <<
    "E","r","r","o","r"," ","f","r","o","m"," ","A","I"," ","P","r","o","v","i","d","e",
    "r"," ","(","A","l","l"," ","m","o","d","e","l","s"," ","f","a","i","l","e","d",")",
    "."," ","L","a","s","t"," ","e","r","r","o","r",":"," " >>

AllFailedMsg(err) == AllFailedPrefix \o err

\* models_to_try
ModelsToTry == <<"gemini-1.5-flash", "gemini-pro", "gemini-3-flash-preview">>

\* os.getenv: the variable is unset (None) or holds a string.
EnvValues == { [present |-> FALSE, value |-> <<>>],
               [present |-> TRUE,  value |-> <<>>],
               [present |-> TRUE,  value |-> <<"k">>] }

\* Python truthiness of an os.getenv result: None and "" are false.
Truthy(v) == v.present /\ v.value # <<>>

\* self.openai_client is set exactly when the key is truthy.
OpenAIClient(key) == Truthy(key)

\* Texts a provider may answer with (one padded with whitespace).
ProviderTexts == { <<"O","k">>, <<" ","r","e","w","r","i","t","e","\n">> }

\* Texts of exceptions and of error response bodies.
ErrorTexts == { <<"t","i","m","e","o","u","t">>, <<"q","u","o","t","a">> }

\* Outcomes of one provider attempt:
\*   ok        the provider answered (HTTP 200 with a candidate text)
\*   status    HTTP status other than 200, with a response body
\*   empty     HTTP 200 whose payload has no candidates
\*   malformed HTTP 200 whose payload cannot be read (json() or indexing raises)
\*   raise     the call itself raised
OkOutcomes      == { [kind |-> "ok", code |-> 200, text |-> t] : t \in ProviderTexts }
StatusOutcomes  == { [kind |-> "status", code |-> c, text |-> b] :
                        c \in {404, 500}, b \in ErrorTexts }
EmptyOutcomes   == { [kind |-> "empty", code |-> 200, text |-> <<>>] }
MalformedOutcomes == { [kind |-> "malformed", code |-> 200, text |-> <<"'","c","o","n","t","e","n","t","'">>] }
RaiseOutcomes   == { [kind |-> "raise", code |-> 0, text |-> e] : e \in ErrorTexts }

OpenAIOutcomes == OkOutcomes \cup MalformedOutcomes \cup RaiseOutcomes
GeminiOutcomes == OkOutcomes \cup StatusOutcomes \cup EmptyOutcomes
                    \cup MalformedOutcomes \cup RaiseOutcomes

\* The try/except around the OpenAI call: the answer is returned stripped; any
\* exception (raised by the call or by reading the response) is caught and
\* control falls through to the Gemini block.
OpenAITry_Uncaught(o) ==
    IF o.kind = "ok" THEN [ctl |-> "return", value |-> Strip(o.text)]
    ELSE [ctl |-> "raise", value |-> <<>>]

OpenAITry(o) ==
    IF o.kind = "ok" THEN [ctl |-> "return", value |-> Strip(o.text)]
    ELSE [ctl |-> "next", value |-> <<>>]

\* One iteration of the for loop over models_to_try, with its try/except.
GeminiTry(o, err) ==
    CASE o.kind = "ok" ->
            [ctl |-> "return", value |-> Strip(o.text), last_error |-> err]
      [] o.kind = "empty" ->
            [ctl |-> "next", value |-> <<>>, last_error |-> err]
      [] o.kind = "status" ->
            [ctl |-> "next", value |-> <<>>,
             last_error |-> IntToText(o.code) \o <<" ","-"," ">> \o o.text]
      [] OTHER ->
            [ctl |-> "next", value |-> <<>>, last_error |-> o.text]

\* Where a call goes first: the OpenAI block if a client exists, else the
\* Gemini block if a key is set, else the fallback return.
FirstStage_NoKeyCheck(okey, gkey) ==
    IF OpenAIClient(okey) THEN "openai" ELSE "gemini"

AfterOpenAI_NoKeyCheck(gkey) == "gemini"

AfterOpenAI(gkey) == IF Truthy(gkey) THEN "gemini" ELSE "fallback"

FirstStage(okey, gkey) ==
    IF OpenAIClient(okey) THEN "openai" ELSE AfterOpenAI(gkey)

GwInit ==
    /\ openai_api_key \in EnvValues
    /\ gemini_api_key \in EnvValues
    /\ gw_pc = "idle"
    /\ model_idx = 1
    /\ last_error = <<>>
    /\ attempts = <<>>
    /\ gw_result = <<>>
    /\ gw_calls = 0

\* Entering stage st of the call ("fallback" returns at once).
EnterStage(st) ==
    /\ gw_pc' = IF st = "fallback" THEN "done" ELSE st
    /\ gw_result' = IF st = "fallback" THEN NotConfiguredMsg ELSE <<>>
    /\ model_idx' = 1
    /\ last_error' = <<>>

\* _get_llm_response is called.
GetLLMResponse ==
    /\ gw_pc = "idle"
    /\ gw_calls < MaxCalls
    /\ gw_calls' = gw_calls + 1
    /\ attempts' = <<>>
    /\ EnterStage(FirstStage(openai_api_key, gemini_api_key))
    /\ UNCHANGED <<openai_api_key, gemini_api_key>>
    /\ UNCHANGED gwOthers

\* The OpenAI attempt.
OpenAIAttempt ==
    /\ gw_pc = "openai"
    /\ \E o \in OpenAIOutcomes :
         LET r == OpenAITry(o) IN
         /\ attempts' = Append(attempts, [provider |-> "openai", outcome |-> o])
         /\ CASE r.ctl = "return" ->
                   /\ gw_pc' = "done"
                   /\ gw_result' = r.value
                   /\ UNCHANGED <<model_idx, last_error>>
              [] r.ctl = "raise" ->
                   /\ gw_pc' = "raised"
                   /\ UNCHANGED <<gw_result, model_idx, last_error>>
              [] OTHER -> EnterStage(AfterOpenAI(gemini_api_key))
    /\ UNCHANGED <<openai_api_key, gemini_api_key, gw_calls>>
    /\ UNCHANGED gwOthers

\* One Gemini attempt: the POST to models_to_try[model_idx] and what follows.
GeminiAttempt ==
    /\ gw_pc = "gemini"
    /\ \E o \in GeminiOutcomes :
         LET r == GeminiTry(o, last_error) IN
         /\ attempts' = Append(attempts,
                [provider |-> ModelsToTry[model_idx], outcome |-> o])
         /\ last_error' = r.last_error
         /\ CASE r.ctl = "return" ->
                   /\ gw_pc' = "done"
                   /\ gw_result' = r.value
                   /\ UNCHANGED model_idx
              [] r.ctl = "raise" ->
                   \* caught by the outer except: the fallback return
                   /\ gw_pc' = "done"
                   /\ gw_result' = NotConfiguredMsg
                   /\ UNCHANGED model_idx
              [] OTHER ->
                   IF model_idx < Len(ModelsToTry)
                   THEN /\ model_idx' = model_idx + 1
                        /\ UNCHANGED <<gw_pc, gw_result>>
                   ELSE /\ gw_pc' = "done"
                        /\ gw_result' = AllFailedMsg(r.last_error)
                        /\ UNCHANGED model_idx
    /\ UNCHANGED <<openai_api_key, gemini_api_key, gw_calls>>
    /\ UNCHANGED gwOthers

\* The caller takes the returned string.
GwReturn ==
    /\ gw_pc = "done"
    /\ gw_pc' = "idle"
    /\ UNCHANGED <<openai_api_key, gemini_api_key, model_idx, last_error,
                   attempts, gw_result, gw_calls>>
    /\ UNCHANGED gwOthers

GwNext == GetLLMResponse \/ OpenAIAttempt \/ GeminiAttempt \/ GwReturn

\* _get_llm_response as a function of what the providers do: oo is the outcome
\* of the OpenAI call and go[i] the outcome of the POST to models_to_try[i]
\* (each used only if that attempt is made).
RECURSIVE GeminiLoop(_, _, _)
GeminiLoop(i, go, err) ==
    IF i > Len(ModelsToTry)
    THEN [raised |-> FALSE, value |-> AllFailedMsg(err)]
    ELSE LET r == GeminiTry(go[i], err)
         IN  CASE r.ctl = "return" -> [raised |-> FALSE, value |-> r.value]
               [] r.ctl = "raise"  -> [raised |-> FALSE, value |-> NotConfiguredMsg]
               [] OTHER            -> GeminiLoop(i + 1, go, r.last_error)

GeminiOrFallback(st, go) ==
    IF st = "gemini" THEN GeminiLoop(1, go, <<>>)
    ELSE [raised |-> FALSE, value |-> NotConfiguredMsg]

LLMResponse(okey, gkey, oo, go) ==
    LET st == FirstStage(okey, gkey) IN
    IF st = "openai"
    THEN LET r == OpenAITry(oo)
         IN  CASE r.ctl = "return" -> [raised |-> FALSE, value |-> r.value]
               [] r.ctl = "raise"  -> [raised |-> TRUE, value |-> <<>>]
               [] OTHER            -> GeminiOrFallback(AfterOpenAI(gkey), go)
    ELSE GeminiOrFallback(st, go)

---------------------------------------------------------------------------
(* The customization engine: AIService.customize_resume and its helpers.   *)

\* ResumeParser.skills_keywords
SkillsKeywords == <<
    <<"p","y","t","h","o","n">>,
    <<"j","a","v","a">>,
    <<"j","a","v","a","s","c","r","i","p","t">>,
    <<"r","e","a","c","t">>,
    <<"n","o","d","e",".","j","s">>,
    <<"s","q","l">>,
    <<"m","o","n","g","o","d","b">>,
    <<"p","o","s","t","g","r","e","s","q","l">>,
    <<"a","w","s">>,
    <<"d","o","c","k","e","r">>,
    <<"k","u","b","e","r","n","e","t","e","s">>,
    <<"g","i","t">>,
    <<"h","t","m","l">>,
    <<"c","s","s">>,
    <<"m","a","c","h","i","n","e"," ","l","e","a","r","n","i","n","g">>,
    <<"d","a","t","a"," ","s","c","i","e","n","c","e">>,
    <<"p","a","n","d","a","s">>,
    <<"n","u","m","p","y">>,
    <<"t","e","n","s","o","r","f","l","o","w">>,
    <<"p","y","t","o","r","c","h">>,
    <<"f","l","a","s","k">>,
    <<"d","j","a","n","g","o">>,
    <<"f","a","s","t","a","p","i">>,
    <<"e","x","p","r","e","s","s">>,
    <<"a","n","g","u","l","a","r">>,
    <<"v","u","e">>,
    <<"c","+","+">>,
    <<"c","#">>,
    <<"g","o">>,
    <<"r","u","s","t">>,
    <<"p","h","p">>,
    <<"r","u","b","y">>,
    <<"s","w","i","f","t">>,
    <<"k","o","t","l","i","n">>,
    <<"t","a","b","l","e","a","u">>,
    <<"p","o","w","e","r"," ","b","i">>,
    <<"e","x","c","e","l">>,
    <<"r">>,
    <<"m","a","t","l","a","b">>,
    <<"s","c","i","k","i","t","-","l","e","a","r","n">>,
    <<"c","o","m","m","u","n","i","c","a","t","i","o","n">>,
    <<"l","e","a","d","e","r","s","h","i","p">>,
    <<"t","e","a","m","w","o","r","k">>,
    <<"p","r","o","b","l","e","m"," ","s","o","l","v","i","n","g">> >>

\* JobDescriptionAnalyzer.common_skills: the same terms and eleven more
CommonSkills == SkillsKeywords \o <<
    <<"a","g","i","l","e">>,
    <<"s","c","r","u","m">>,
    <<"j","i","r","a">>,
    <<"c","o","n","f","l","u","e","n","c","e">>,
    <<"c","i","/","c","d">>,
    <<"r","e","s","t"," ","a","p","i">>,
    <<"g","r","a","p","h","q","l">>,
    <<"m","i","c","r","o","s","e","r","v","i","c","e","s">>,
    <<"l","i","n","u","x">>,
    <<"b","a","s","h">>,
    <<"s","h","e","l","l"," ","s","c","r","i","p","t","i","n","g">> >>

\* None, or a string
NoneText == [present |-> FALSE, value |-> <<>>]
Some(t)  == [present |-> TRUE, value |-> t]

\* sum(1 for skill in jd_skills_lower
\*     if any(rs in skill or skill in rs for rs in resume_skills_lower))
\* [s.lower() for s in skills]
LowerAll(skills) == [i \in 1..Len(skills) |-> Lower(skills[i])]

SkillMatches(skill_lower, resume_skills_lower) ==
    \E i \in 1..Len(resume_skills_lower) :
        \/ IsSubstr(resume_skills_lower[i], skill_lower)
        \/ IsSubstr(skill_lower, resume_skills_lower[i])

MatchingSkills(resume_skills, jd_skills) ==
    LET resume_skills_lower == LowerAll(resume_skills)
        jd_skills_lower     == LowerAll(jd_skills)
    IN  Cardinality({ j \in 1..Len(jd_skills) :
                        SkillMatches(jd_skills_lower[j], resume_skills_lower) })

\* sum(1 for kw in jd_keywords if any(kw.lower() in rs for rs in resume_skills_lower))
KeywordMatches(resume_skills, jd_keywords) ==
    LET resume_skills_lower == LowerAll(resume_skills)
    IN  Cardinality({ k \in 1..Len(jd_keywords) :
                        \E i \in 1..Len(resume_skills) :
                            IsSubstr(Lower(jd_keywords[k]), resume_skills_lower[i]) })

\* AIService._calculate_relevance_score
CalculateRelevanceScore_Unclamped(resume_skills, resume_projects, jd_skills, jd_keywords) ==
    IF ~NonEmpty(jd_skills) THEN 50
    ELSE LET score == PercentOf(MatchingSkills(resume_skills, jd_skills), Len(jd_skills))
             bonus == IF NonEmpty(jd_keywords)
                      THEN Min(KeywordMatches(resume_skills, jd_keywords) * 5, 20)
                      ELSE 0
         IN  score + bonus

CalculateRelevanceScore_BonusFirst(resume_skills, resume_projects, jd_skills, jd_keywords) ==
    LET bonus == IF NonEmpty(jd_keywords)
                 THEN Min(KeywordMatches(resume_skills, jd_keywords) * 5, 20)
                 ELSE 0
    IN  IF ~NonEmpty(jd_skills) THEN Min(50 + bonus, 100)
        ELSE Min(PercentOf(MatchingSkills(resume_skills, jd_skills), Len(jd_skills))
                    + bonus, 100)

CalculateRelevanceScore(resume_skills, resume_projects, jd_skills, jd_keywords) ==
    IF ~NonEmpty(jd_skills) THEN 50
    ELSE LET score == PercentOf(MatchingSkills(resume_skills, jd_skills), Len(jd_skills))
             bonus == IF NonEmpty(jd_keywords)
                      THEN Min(KeywordMatches(resume_skills, jd_keywords) * 5, 20)
                      ELSE 0
         IN  Min(score + bonus, 100)

\* [skill for skill in jd_skills
\*        if skill.lower() not in [s.lower() for s in resume_skills]]
MissingSkills_Substring(resume_skills, jd_skills) ==
    LET Missing(skill) == ~SkillMatches(Lower(skill), LowerAll(resume_skills))
    IN  SelectSeq(jd_skills, Missing)

MissingSkills(resume_skills, jd_skills) ==
    LET Missing(skill) ==
            \A i \in 1..Len(resume_skills) : Lower(resume_skills[i]) # Lower(skill)
    IN  SelectSeq(jd_skills, Missing)

\* AIService._reorder_skills: the loop appends each skill to relevant_skills
\* or to other_skills; the result is relevant_skills + other_skills.
SkillIsRelevant(skill, jd_skills_lower) ==
    LET skill_lower == Lower(skill)
    IN  \E j \in 1..Len(jd_skills_lower) :
            \/ IsSubstr(jd_skills_lower[j], skill_lower)
            \/ IsSubstr(skill_lower, jd_skills_lower[j])

RECURSIVE ReorderLoop_Prepend(_, _, _, _)
ReorderLoop_Prepend(rest, jd_skills_lower, relevant_skills, other_skills) ==
    IF rest = <<>> THEN relevant_skills \o other_skills
    ELSE IF SkillIsRelevant(Head(rest), jd_skills_lower)
         THEN ReorderLoop_Prepend(Tail(rest), jd_skills_lower,
                          <<Head(rest)>> \o relevant_skills, other_skills)
         ELSE ReorderLoop_Prepend(Tail(rest), jd_skills_lower,
                          relevant_skills, Append(other_skills, Head(rest)))

RECURSIVE ReorderLoop(_, _, _, _)
ReorderLoop(rest, jd_skills_lower, relevant_skills, other_skills) ==
    IF rest = <<>> THEN relevant_skills \o other_skills
    ELSE IF SkillIsRelevant(Head(rest), jd_skills_lower)
         THEN ReorderLoop(Tail(rest), jd_skills_lower,
                          Append(relevant_skills, Head(rest)), other_skills)
         ELSE ReorderLoop(Tail(rest), jd_skills_lower,
                          relevant_skills, Append(other_skills, Head(rest)))

ReorderSkills(resume_skills, jd_skills) ==
    ReorderLoop(resume_skills, LowerAll(jd_skills), <<>>, <<>>)

RelevanceCount_CaseSensitive(description, jd_skills) ==
    Cardinality({ j \in 1..Len(jd_skills) : IsSubstr(jd_skills[j], description) })

\* sum(1 for skill in jd_skills_lower if skill in description.lower())
RelevanceCount(description, jd_skills) ==
    Cardinality({ j \in 1..Len(jd_skills) :
                    IsSubstr(Lower(jd_skills[j]), Lower(description)) })

\* any(skill in description.lower() for skill in jd_skills_lower)
ExperienceRelevant_Always(description, jd_skills) == TRUE

ExperienceRelevant_AllSkills(description, jd_skills) ==
    \A j \in 1..Len(jd_skills) : IsSubstr(Lower(jd_skills[j]), Lower(description))

ExperienceRelevant(description, jd_skills) ==
    \E j \in 1..Len(jd_skills) : IsSubstr(Lower(jd_skills[j]), Lower(description))

\* list.sort(key=..., reverse=True): stable, descending by the relevance
\* count of each project's (possibly rewritten) description.
RECURSIVE InsertByRelevance_Unstable(_, _, _)
InsertByRelevance_Unstable(sorted, p, jd_skills) ==
    IF sorted = <<>> THEN <<p>>
    ELSE IF RelevanceCount(Head(sorted).description, jd_skills)
              > RelevanceCount(p.description, jd_skills)
         THEN <<Head(sorted)>> \o InsertByRelevance_Unstable(Tail(sorted), p, jd_skills)
         ELSE <<p>> \o sorted

RECURSIVE InsertByRelevance(_, _, _)
InsertByRelevance(sorted, p, jd_skills) ==
    IF sorted = <<>> THEN <<p>>
    ELSE IF RelevanceCount(Head(sorted).description, jd_skills)
              >= RelevanceCount(p.description, jd_skills)
         THEN <<Head(sorted)>> \o InsertByRelevance(Tail(sorted), p, jd_skills)
         ELSE <<p>> \o sorted

RECURSIVE SortByRelevance(_, _)
SortByRelevance(projects, jd_skills) ==
    IF projects = <<>> THEN <<>>
    ELSE InsertByRelevance(
            SortByRelevance(SubSeq(projects, 1, Len(projects) - 1), jd_skills),
            projects[Len(projects)], jd_skills)

\* What the providers do during a customization: the OpenAI call answers or
\* raises; a Gemini model answers or returns a non-200 status.
CzOpenAIOutcomes ==
    { [kind |-> "ok", code |-> 200, text |-> <<"O","k">>],
      [kind |-> "raise", code |-> 0, text |-> <<"t","i","m","e","o","u","t">>] }

CzGeminiOutcomes ==
    { [kind |-> "ok", code |-> 200, text |-> <<" ","U","s","e","s"," ","S","Q","L","\n">>],
      [kind |-> "status", code |-> 500, text |-> <<"q","u","o","t","a">>] }

\* The strings one _get_llm_response call can return, by key configuration.
GatewayResponses ==
    [okey \in EnvValues, gkey \in EnvValues |->
        { LLMResponse(okey, gkey, oo, [i \in 1..Len(ModelsToTry) |-> g]) :
            oo \in CzOpenAIOutcomes, g \in CzGeminiOutcomes }]

\* The call customize_resume makes next, when it makes one.
CallLLM == GatewayResponses[openai_api_key, gemini_api_key]

NoCall == { [raised |-> FALSE, value |-> <<>>] }

EmptyResult ==
    [customized_data |-> [skills |-> <<>>, projects |-> <<>>, experience |-> <<>>,
                          education |-> [present |-> FALSE], summary |-> <<>>,
                          missing_skills_note |-> <<>>],
     changes_made |-> [skills_reordered |-> FALSE, projects_enhanced |-> 0,
                       experience_enhanced |-> 0, missing_skills |-> <<>>],
     relevance_score |-> 0]

CzIdle ==
    /\ resume_data = [skills |-> <<>>, projects |-> <<>>, experience |-> <<>>,
                      education |-> [present |-> FALSE], summary |-> NoneText]
    /\ job_description = [required_skills |-> <<>>, priority_keywords |-> <<>>]
    /\ cz_pc = "off"
    /\ cz_i = 1
    /\ enhanced_projects = <<>>
    /\ enhanced_experience = <<>>
    /\ relevance_score = 0
    /\ missing_skills = <<>>
    /\ llm_calls = <<>>
    /\ cz_result = EmptyResult

GwIdle ==
    /\ gw_pc = "off"
    /\ model_idx = 1
    /\ last_error = <<>>
    /\ attempts = <<>>
    /\ gw_result = <<>>
    /\ gw_calls = 0

StageFrom_SkipExperience(from) == "summary"

\* The stage customize_resume is at once its projects are done (from = 1),
\* its experience is done (from = 2).
StageFrom(from) ==
    IF from <= 1 /\ NonEmpty(resume_data.experience) THEN "experience"
    ELSE "summary"

\* customize_resume is called: the relevance score and the missing skills are
\* computed, then _enhance_projects starts.
CustomizeResume ==
    /\ cz_pc = "idle"
    /\ relevance_score' = CalculateRelevanceScore(
            resume_data.skills, resume_data.projects,
            job_description.required_skills, job_description.priority_keywords)
    /\ missing_skills' = MissingSkills(resume_data.skills,
                                       job_description.required_skills)
    /\ cz_pc' = IF NonEmpty(resume_data.projects) THEN "projects" ELSE StageFrom(1)
    /\ cz_i' = 1
    /\ enhanced_projects' = <<>>
    /\ enhanced_experience' = <<>>
    /\ UNCHANGED <<resume_data, job_description, llm_calls, cz_result>>
    /\ UNCHANGED czOthers

\* One iteration of the loop of _enhance_projects; the last one is followed by
\* the sort and the return.
EnhanceProject ==
    /\ cz_pc = "projects"
    /\ LET project  == resume_data.projects[cz_i]
           relevant == RelevanceCount(project.description,
                                      job_description.required_skills) > 0
       IN  \E resp \in (IF relevant THEN CallLLM ELSE NoCall) :
             LET enhanced_project ==
                     IF relevant THEN [project EXCEPT !.description = resp.value]
                     ELSE project
                 enhanced == Append(enhanced_projects, enhanced_project)
             IN  /\ llm_calls' = IF relevant
                                 THEN Append(llm_calls,
                                        [kind |-> "project", entry |-> cz_i,
                                         original |-> project.description,
                                         returned |-> resp.value])
                                 ELSE llm_calls
                 /\ IF resp.raised
                    THEN /\ cz_pc' = "raised"
                         /\ UNCHANGED <<cz_i, enhanced_projects>>
                    ELSE IF cz_i < Len(resume_data.projects)
                    THEN /\ cz_i' = cz_i + 1
                         /\ enhanced_projects' = enhanced
                         /\ UNCHANGED cz_pc
                    ELSE /\ cz_i' = 1
                         /\ enhanced_projects' =
                                SortByRelevance(enhanced, job_description.required_skills)
                         /\ cz_pc' = StageFrom(1)
    /\ UNCHANGED <<resume_data, job_description, enhanced_experience,
                   relevance_score, missing_skills, cz_result>>
    /\ UNCHANGED czOthers

\* One iteration of the loop of _enhance_experience.
EnhanceExperience ==
    /\ cz_pc = "experience"
    /\ LET exp      == resume_data.experience[cz_i]
           relevant == ExperienceRelevant(exp.description,
                                          job_description.required_skills)
       IN  \E resp \in (IF relevant THEN CallLLM ELSE NoCall) :
             LET enhanced_exp ==
                     IF relevant THEN [exp EXCEPT !.description = resp.value]
                     ELSE exp
             IN  /\ llm_calls' = IF relevant
                                 THEN Append(llm_calls,
                                        [kind |-> "experience", entry |-> cz_i,
                                         original |-> exp.description,
                                         returned |-> resp.value])
                                 ELSE llm_calls
                 /\ IF resp.raised
                    THEN /\ cz_pc' = "raised"
                         /\ UNCHANGED <<cz_i, enhanced_experience>>
                    ELSE /\ enhanced_experience' = Append(enhanced_experience, enhanced_exp)
                         /\ IF cz_i < Len(resume_data.experience)
                            THEN cz_i' = cz_i + 1 /\ UNCHANGED cz_pc
                            ELSE cz_i' = 1 /\ cz_pc' = StageFrom(2)
    /\ UNCHANGED <<resume_data, job_description, enhanced_projects,
                   relevance_score, missing_skills, cz_result>>
    /\ UNCHANGED czOthers

ChangesMade_OnlyRewritten(projects, experience, missing) ==
    [skills_reordered |-> TRUE,
     projects_enhanced |->
         Cardinality({ k \in 1..Len(llm_calls) : llm_calls[k].kind = "project" }),
     experience_enhanced |->
         Cardinality({ k \in 1..Len(llm_calls) : llm_calls[k].kind = "experience" }),
     missing_skills |-> SubSeq(missing, 1, Min(5, Len(missing)))]

\* The changes_made dictionary of customize_resume.
ChangesMade(projects, experience, missing) ==
    [skills_reordered |-> TRUE,
     projects_enhanced |-> Len(projects),
     experience_enhanced |-> Len(experience),
     missing_skills |-> SubSeq(missing, 1, Min(5, Len(missing)))]

\* The rest of customize_resume: customized_data is built (_reorder_skills,
\* then _generate_summary with its gateway call), then changes_made, and the
\* result is returned.
GenerateSummary ==
    /\ cz_pc = "summary"
    /\ \E resp \in CallLLM :
         /\ llm_calls' = Append(llm_calls,
                [kind |-> IF Truthy(resume_data.summary) THEN "enhance_summary"
                          ELSE "write_summary",
                 entry |-> 0,
                 original |-> resume_data.summary.value,
                 returned |-> resp.value])
         /\ IF resp.raised
            THEN cz_pc' = "raised" /\ UNCHANGED cz_result
            ELSE /\ cz_pc' = "done"
                 /\ cz_result' =
                      [customized_data |->
                          [skills |-> ReorderSkills(resume_data.skills,
                                          job_description.required_skills),
                           projects |-> enhanced_projects,
                           experience |-> enhanced_experience,
                           education |-> resume_data.education,
                           summary |-> resp.value,
                           missing_skills_note |->
                               IF NonEmpty(missing_skills)
                               THEN SubSeq(missing_skills, 1, Min(3, Len(missing_skills)))
                               ELSE <<>>],
                       changes_made |->
                          ChangesMade(enhanced_projects, enhanced_experience,
                                      missing_skills),
                       relevance_score |-> relevance_score]
    /\ UNCHANGED <<resume_data, job_description, cz_i, enhanced_projects,
                   enhanced_experience, relevance_score, missing_skills>>
    /\ UNCHANGED czOthers

CzNext == CustomizeResume \/ EnhanceProject \/ EnhanceExperience \/ GenerateSummary


---------------------------------------------------------------------------
(* The resume parser: ResumeParser.parse_resume, extract_education and     *)
(* calculate_ats_score.  The text of an upload is kept as what the         *)
(* patterns of the parser find in it.                                      *)

MsgTooShort == <<
    "R","e","s","u","m","e"," ","m","i","g","h","t"," ","b","e"," ","t","o","o"," ",
    "s","h","o","r","t" >>

MsgTooLong == <<
    "R","e","s","u","m","e"," ","m","i","g","h","t"," ","b","e"," ","t","o","o"," ",
    "l","o","n","g" >>

MsgOptimalWords == <<"O","p","t","i","m","a","l"," ","w","o","r","d"," ","c","o","u","n","t">>

MsgMissingSection == <<"M","i","s","s","i","n","g"," ","s","e","c","t","i","o","n",":"," ">>

MsgMissingEmail == <<
    "M","i","s","s","i","n","g"," ","e","m","a","i","l"," ","a","d","d","r","e","s",
    "s" >>

MsgMissingPhone == <<"M","i","s","s","i","n","g"," ","p","h","o","n","e"," ","n","u","m","b","e","r">>

MsgGoodSkillsPrefix == <<
    "G","o","o","d"," ","t","e","c","h","n","i","c","a","l"," ","s","k","i","l","l",
    "s"," ","d","e","t","e","c","t","e","d"," ","(" >>

MsgGoodSkillsSuffix == <<" ","f","o","u","n","d",")">>

MsgMoreSkills == <<
    "C","o","n","s","i","d","e","r"," ","a","d","d","i","n","g"," ","m","o","r","e",
    " ","r","e","l","e","v","a","n","t"," ","t","e","c","h","n","i","c","a","l"," ",
    "s","k","i","l","l","s" >>

MsgNoSkills == <<
    "N","o"," ","t","e","c","h","n","i","c","a","l"," ","s","k","i","l","l","s"," ",
    "d","e","t","e","c","t","e","d" >>

MsgGoodBullets == <<
    "G","o","o","d"," ","u","s","e"," ","o","f"," ","b","u","l","l","e","t"," ","p",
    "o","i","n","t","s" >>

MsgMoreBullets == <<
    "U","s","e"," ","m","o","r","e"," ","b","u","l","l","e","t"," ","p","o","i","n",
    "t","s"," ","f","o","r"," ","b","e","t","t","e","r"," ","r","e","a","d","a","b",
    "i","l","i","t","y" >>

\* bool(d) of a dictionary: it has a key
DictTruthy(d) == DOMAIN d # {}

\* ResumeParser.extract_education: the dictionary starts with four None
\* fields; the first pattern that matches fills degree (title-cased),
\* institution and year where the span holds them.
ExtractEducation(text) ==
    LET m == text.education_match IN
    [degree      |-> IF m.matched /\ m.degree.present
                     THEN Some(Title(m.degree.value)) ELSE NoneText,
     field       |-> NoneText,
     institution |-> IF m.matched /\ m.institution.present
                     THEN Some(Strip(m.institution.value)) ELSE NoneText,
     year        |-> IF m.matched THEN m.year ELSE NoneText]

\* The sections calculate_ats_score looks for.
Sections ==
    << [key |-> "skills",     name |-> <<"s","k","i","l","l","s">>],
       [key |-> "education",  name |-> <<"e","d","u","c","a","t","i","o","n">>],
       [key |-> "experience", name |-> <<"e","x","p","e","r","i","e","n","c","e">>],
       [key |-> "projects",   name |-> <<"p","r","o","j","e","c","t","s">>] >>

\* bool(parsed_data.get(section))
HasContent(data, key) ==
    IF key = "education" THEN DictTruthy(data.education) ELSE NonEmpty(data[key])

\* 1. Content length check
AtsLength(acc, text) ==
    IF 400 <= text.word_count /\ text.word_count <= 1000
    THEN [acc EXCEPT !.score = @ + 10,
                     !.positive_aspects = Append(@, MsgOptimalWords)]
    ELSE IF text.word_count < 400
    THEN [acc EXCEPT !.score = @ + 5, !.issues = Append(@, MsgTooShort)]
    ELSE [acc EXCEPT !.score = @ + 5, !.issues = Append(@, MsgTooLong)]

\* 2. Section presence: the loop over sections, from section i on
RECURSIVE AtsSections(_, _, _)
AtsSections(acc, data, i) ==
    IF i > Len(Sections) THEN acc
    ELSE LET has_content == HasContent(data, Sections[i].key)
             presence == (Sections[i].key :> has_content) @@ acc.section_presence
         IN  AtsSections(
                IF has_content
                THEN [acc EXCEPT !.score = @ + 10, !.section_presence = presence]
                ELSE [acc EXCEPT !.section_presence = presence,
                                 !.issues = Append(@, MsgMissingSection
                                                        \o Title(Sections[i].name))],
                data, i + 1)

\* 3. Contact info
AtsContact(acc, text) ==
    LET a1 == IF text.has_email THEN [acc EXCEPT !.score = @ + 5] ELSE acc
        a2 == IF text.has_phone THEN [a1 EXCEPT !.score = @ + 5] ELSE a1
        a3 == IF ~text.has_email
              THEN [a2 EXCEPT !.issues = Append(@, MsgMissingEmail)] ELSE a2
    IN  IF ~text.has_phone
        THEN [a3 EXCEPT !.issues = Append(@, MsgMissingPhone)] ELSE a3

\* 4. Skills parsing
AtsSkills(acc, data) ==
    LET skills_count == Len(data.skills) IN
    IF skills_count >= 5
    THEN [acc EXCEPT !.score = @ + 20,
                     !.positive_aspects =
                        Append(@, MsgGoodSkillsPrefix \o IntToText(skills_count)
                                    \o MsgGoodSkillsSuffix)]
    ELSE IF skills_count > 0
    THEN [acc EXCEPT !.score = @ + 10, !.issues = Append(@, MsgMoreSkills)]
    ELSE [acc EXCEPT !.issues = Append(@, MsgNoSkills)]

\* 5. Formatting / readability
AtsFormatting(acc, text) ==
    IF text.bullet_points > 5
    THEN [acc EXCEPT !.score = @ + 20,
                     !.positive_aspects = Append(@, MsgGoodBullets)]
    ELSE [acc EXCEPT !.score = @ + 10, !.issues = Append(@, MsgMoreBullets)]

\* ResumeParser.calculate_ats_score
CalculateAtsScore(text, data) ==
    LET a0 == [score |-> 0, issues |-> <<>>, positive_aspects |-> <<>>,
               section_presence |-> <<>>]
        a1 == AtsLength(a0, text)
        a2 == AtsSections(a1, data, 1)
        a3 == AtsContact(a2, text)
        a4 == AtsSkills(a3, data)
        a5 == AtsFormatting(a4, text)
    IN  [score |-> a5.score,
         analysis |-> [issues |-> a5.issues,
                       positive_aspects |-> a5.positive_aspects,
                       section_presence |-> a5.section_presence]]

NoAts == [score |-> 0,
          analysis |-> [issues |-> <<>>, positive_aspects |-> <<>>,
                        section_presence |-> <<>>]]

NoParsedData ==
    [skills |-> <<>>, education |-> <<>>, experience |-> <<>>, projects |-> <<>>,
     summary |-> NoneText, ats_score |-> 0, ats_analysis |-> NoAts.analysis]

\* What the education patterns find: nothing, a span without a degree or
\* year, or a span with both.
EducationMatches ==
    { [matched |-> FALSE, degree |-> NoneText, institution |-> NoneText, year |-> NoneText],
      [matched |-> TRUE,  degree |-> NoneText, institution |-> NoneText, year |-> NoneText],
      [matched |-> TRUE,  degree |-> Some(<<"b",".","t","e","c","h">>),
       institution |-> Some(<<"I","I","T"," ","D","e","l","h","i">>),
       year |-> Some(<<"2","0","2","0">>)] }

PrIdle ==
    /\ upload_text = [word_count |-> 0, bullet_points |-> 0, has_email |-> FALSE,
                      has_phone |-> FALSE, skills |-> <<>>,
                      education_match |-> CHOOSE m \in EducationMatches : ~m.matched,
                      experience |-> <<>>, projects |-> <<>>, summary |-> NoneText]
    /\ pr_pc = "off"
    /\ parsed_data = NoParsedData
    /\ ats_again = NoAts

\* ResumeParser.parse_resume, from the extracted text on
ParseResult(text) ==
    LET data == [skills |-> text.skills,
                 education |-> ExtractEducation(text),
                 experience |-> text.experience,
                 projects |-> text.projects,
                 summary |-> text.summary]
        ats_result == CalculateAtsScore(text, data)
    IN  [skills |-> data.skills, education |-> data.education,
         experience |-> data.experience, projects |-> data.projects,
         summary |-> data.summary,
         ats_score |-> ats_result.score,
         ats_analysis |-> ats_result.analysis]

\* ResumeParser.parse_resume
ParseResume ==
    /\ pr_pc = "uploaded"
    /\ parsed_data' = ParseResult(upload_text)
    /\ pr_pc' = "parsed"
    /\ UNCHANGED <<upload_text, ats_again>>
    /\ UNCHANGED prOthers

\* calculate_ats_score is called once more on the same text and parsed data.
ScoreAgain ==
    /\ pr_pc = "parsed"
    /\ ats_again' = CalculateAtsScore(upload_text, parsed_data)
    /\ pr_pc' = "rescored"
    /\ UNCHANGED <<upload_text, parsed_data>>
    /\ UNCHANGED prOthers

---------------------------------------------------------------------------
(* Service methods called with their arguments: one call per behaviour,    *)
(* svc_call holding the method and its arguments, svc_ret what it returns. *)

SvcIdle ==
    /\ svc_call = [op |-> "none"]
    /\ svc_pc = "off"
    /\ svc_ret = <<>>

\* str.split(): the maximal runs of non-whitespace characters, in order
WordStarts(s) ==
    { i \in 1..Len(s) : s[i] \notin Whitespace /\ (i = 1 \/ s[i - 1] \in Whitespace) }

WordEnd(s, i) ==
    CHOOSE j \in i..Len(s) :
        /\ \A k \in i..j : s[k] \notin Whitespace
        /\ j = Len(s) \/ s[j + 1] \in Whitespace

SplitWords(s) ==
    LET starts == WordStarts(s)
        Nth(k) == CHOOSE i \in starts : Cardinality({ j \in starts : j < i }) = k - 1
    IN  [k \in 1..Cardinality(starts) |-> SubSeq(s, Nth(k), WordEnd(s, Nth(k)))]

\* sep.join(items)
RECURSIVE Join(_, _)
Join(items, sep) ==
    IF items = <<>> THEN <<>>
    ELSE IF Len(items) = 1 THEN items[1]
    ELSE items[1] \o sep \o Join(Tail(items), sep)

\* items[:n], n of either sign
Prefix(items, n) ==
    IF n >= 0 THEN SubSeq(items, 1, Min(n, Len(items)))
    ELSE SubSeq(items, 1, Len(items) + n)

Ellipsis == <<".", ".", ".">>

\* The word limit the router passes on: answer_request.word_limit or 200
DefaultWordLimit == 200

RouterWordLimit(requested) ==
    IF ~requested.present \/ requested.value = 0 THEN DefaultWordLimit
    ELSE requested.value

\* AIService.generate_application_answer, given what _get_llm_response returns
ApplicationAnswer(answer, word_limit) ==
    LET words == SplitWords(answer)
    IN  IF Len(words) > word_limit
        THEN Join(Prefix(words, word_limit), <<" ">>) \o Ellipsis
        ELSE answer

\* POST /generate-answer, from the call of the service on
GenerateApplicationAnswer ==
    /\ svc_pc = "called"
    /\ svc_call.op = "generate_application_answer"
    /\ svc_ret' = ApplicationAnswer(svc_call.response,
                                    RouterWordLimit(svc_call.word_limit))
    /\ svc_pc' = "returned"
    /\ UNCHANGED svc_call
    /\ UNCHANGED svcOthers

\* Counter(items).most_common(n): the distinct items by falling count, items
\* of equal count in the order of their first occurrence, cut to n
MostCommon(items, n) ==
    LET Count(x)  == Cardinality({ i \in 1..Len(items) : items[i] = x })
        First(x)  == CHOOSE i \in 1..Len(items) :
                        items[i] = x /\ \A j \in 1..(i - 1) : items[j] # x
        distinct  == { items[i] : i \in 1..Len(items) }
        Before(x) == { y \in distinct :
                         \/ Count(y) > Count(x)
                         \/ Count(y) = Count(x) /\ First(y) < First(x) }
        ordered   == [k \in 1..Cardinality(distinct) |->
                         CHOOSE x \in distinct : Cardinality(Before(x)) = k - 1]
    IN  Prefix([k \in 1..Len(ordered) |->
                    [skill |-> ordered[k], count |-> Count(ordered[k])]], n)

\* AIService.analyze_skill_gaps, idea being what _get_llm_response returns
SkillGaps(user_skills, job_descriptions, idea) ==
    LET all_required_skills ==
            Join([j \in 1..Len(job_descriptions) |->
                     job_descriptions[j].required_skills
                        \o job_descriptions[j].tools_technologies], <<>>)
        user_skills_lower == LowerAll(user_skills)
        NotUsers(entry) == \A i \in 1..Len(user_skills_lower) :
                               user_skills_lower[i] # entry.skill
        common == SelectSeq(MostCommon(LowerAll(all_required_skills), 20), NotUsers)
        missing     == [k \in 1..Len(common) |-> common[k].skill]
        recommended == Prefix(missing, 10)
        learn       == Prefix(recommended, 5)
    IN  [missing_skills     |-> Prefix(missing, 15),
         recommended_skills |-> recommended,
         project_ideas      |-> [k \in 1..Len(learn) |->
                                    Title(learn[k]) \o <<":", " ">> \o idea],
         learning_resources |-> [k \in 1..Len(learn) |-> [skill |-> Title(learn[k])]]]

\* POST /analyze of the skills router, from the call of the service on
AnalyzeSkillGaps ==
    /\ svc_pc = "called"
    /\ svc_call.op = "analyze_skill_gaps"
    /\ svc_ret' = SkillGaps(svc_call.user_skills, svc_call.job_descriptions,
                            svc_call.response)
    /\ svc_pc' = "returned"
    /\ UNCHANGED svc_call
    /\ UNCHANGED svcOthers

\* s.split(c) for a separator c of one character: the pieces between the
\* occurrences of c, empty ones included
SplitOn(s, c) ==
    LET cuts == { i \in 1..Len(s) : s[i] = c }
        n    == Cardinality(cuts)
        Cut(k) == IF k = 0 THEN 0
                  ELSE IF k = n + 1 THEN Len(s) + 1
                  ELSE CHOOSE i \in cuts : Cardinality({ j \in cuts : j < i }) = k - 1
    IN  [k \in 1..(n + 1) |-> SubSeq(s, Cut(k - 1) + 1, Cut(k) - 1)]

\* s.startswith(p)
StartsWith(s, p) == Len(s) >= Len(p) /\ SubSeq(s, 1, Len(p)) = p

\* The try block of evaluate_interview_answer: the lines of the response in
\* order, each field line assigning its field, until a line raises.
\* int(float(t)) is taken for the plain decimals digits[.digits] and raises
\* ValueError for any other text the responses of the model hold.
EvaluationScan(response) ==
    LET lines == SplitOn(response, "\n")
        Digits == { DigitChar(d) : d \in 0..9 }
        Value(c) == CHOOSE d \in 0..9 : DigitChar(d) = c
        Whole(t) == SplitOn(t, ".")[1]
        IsDecimal(t) ==
            LET parts == SplitOn(t, ".")
            IN  /\ Len(parts) <= 2
                /\ \A k \in 1..Len(parts) : \A i \in 1..Len(parts[k]) : parts[k][i] \in Digits
                /\ \E k \in 1..Len(parts) : parts[k] # <<>>
        RECURSIVE IntOf(_)
        IntOf(t) == IF t = <<>> THEN 0
                    ELSE 10 * IntOf(SubSeq(t, 1, Len(t) - 1)) + Value(t[Len(t)])
        Field(line) == SplitOn(line, ":")[2]
        Items(line) == LET parts == SplitOn(Field(line), ",")
                       IN  [k \in 1..Len(parts) |-> Strip(parts[k])]
        ScoreText(line) == Strip(SplitOn(Strip(Field(line)), "/")[1])
        Step(acc, line) ==
            IF StartsWith(line, <<"S","c","o","r","e",":">>)
            THEN IF IsDecimal(ScoreText(line))
                 THEN [acc EXCEPT !.result.score = IntOf(Whole(ScoreText(line)))]
                 ELSE [acc EXCEPT !.raised = TRUE]
            ELSE IF StartsWith(line, <<"S","t","r","e","n","g","t","h","s",":">>)
            THEN [acc EXCEPT !.result.strengths = Items(line)]
            ELSE IF StartsWith(line, <<"W","e","a","k","n","e","s","s","e","s",":">>)
            THEN [acc EXCEPT !.result.weaknesses = Items(line)]
            ELSE IF StartsWith(line, <<"I","m","p","r","o","v","e","m","e","n","t"," ",
                                       "S","u","g","g","e","s","t","i","o","n",":">>)
            THEN [acc EXCEPT !.result.suggestion = Strip(Field(line))]
            ELSE acc
        RECURSIVE Scan(_)
        Scan(k) == IF k = 0
                   THEN [raised |-> FALSE,
                         result |-> [score |-> 0, feedback |-> response,
                                     strengths |-> <<>>, weaknesses |-> <<>>,
                                     suggestion |-> <<>>, sample_answer |-> <<>>]]
                   ELSE IF Scan(k - 1).raised THEN Scan(k - 1)
                   ELSE Step(Scan(k - 1), lines[k])
    IN  Scan(Len(lines))

InterviewEvaluation_Uncaught(response) == EvaluationScan(response)

\* AIService.evaluate_interview_answer, given what _get_llm_response returns:
\* whatever the try block raises is dropped by the bare except
InterviewEvaluation(response) ==
    [raised |-> FALSE, result |-> EvaluationScan(response).result]

\* POST /evaluate-answer of the interview router, from the call of the service on
EvaluateInterviewAnswer ==
    /\ svc_pc = "called"
    /\ svc_call.op = "evaluate_interview_answer"
    /\ LET evaluation == InterviewEvaluation(svc_call.response)
       IN  /\ svc_pc' = IF evaluation.raised THEN "raised" ELSE "returned"
           /\ svc_ret' = IF evaluation.raised THEN <<>> ELSE evaluation.result
    /\ UNCHANGED svc_call
    /\ UNCHANGED svcOthers

\* [start, stop): the run of characters from start on that are in chars
\* (inside) or are not (~inside); stop is where it ends
Span(text, start, chars, inside) ==
    CHOOSE stop \in start..(Len(text) + 1) :
        /\ \A k \in start..(stop - 1) : (text[k] \in chars) = inside
        /\ stop = Len(text) + 1 \/ (text[stop] \in chars) # inside

\* re.split on a class of single characters: the pieces between them
SplitAny(s, seps) ==
    LET cuts == { i \in 1..Len(s) : s[i] \in seps }
        n    == Cardinality(cuts)
        Cut(k) == IF k = 0 THEN 0
                  ELSE IF k = n + 1 THEN Len(s) + 1
                  ELSE CHOOSE i \in cuts : Cardinality({ j \in cuts : j < i }) = k - 1
    IN  [k \in 1..(n + 1) |-> SubSeq(s, Cut(k - 1) + 1, Cut(k) - 1)]

\* re.search(r'(head|...)[:\-]?\s*([^\n]+(?:\n[^\n]+){0,more})', text,
\* re.IGNORECASE): the group after the heading. The match starts at the first
\* place one can; there the earlier head wins, then the mark ":" or "-" is
\* taken if a match follows it, then as much whitespace as leaves the group a
\* first character that is no newline; the group runs to the end of its
\* line and through up to `more` further lines that are not empty.
SectionText(text, heads, more) ==
    LET low == Lower(text)
        At(i, h) == /\ i + Len(heads[h]) - 1 <= Len(text)
                    /\ SubSeq(low, i, i + Len(heads[h]) - 1) = heads[h]
        GroupStart(p) ==
            LET q == Span(text, p, Whitespace, TRUE)
                given == { k \in p..(q - 1) : text[k] # "\n" }
            IN  IF q <= Len(text) THEN q
                ELSE IF given = {} THEN 0
                ELSE CHOOSE k \in given : \A j \in given : j <= k
        Group(i, h) ==
            LET p == i + Len(heads[h])
            IN  IF p <= Len(text) /\ text[p] \in {":", "-"} /\ GroupStart(p + 1) # 0
                THEN GroupStart(p + 1)
                ELSE IF p <= Len(text) THEN GroupStart(p) ELSE 0
        matches == { m \in (1..Len(text)) \X (1..Len(heads)) :
                        At(m[1], m[2]) /\ Group(m[1], m[2]) # 0 }
        first == CHOOSE m \in matches :
                    \A o \in matches : m[1] < o[1] \/ (m[1] = o[1] /\ m[2] <= o[2])
        LineEnd(g) == Span(text, g, {"\n"}, FALSE) - 1
        RECURSIVE Through(_, _)
        Through(e, n) ==
            IF n > 0 /\ e + 2 <= Len(text) /\ text[e + 1] = "\n" /\ text[e + 2] # "\n"
            THEN Through(LineEnd(e + 2), n - 1) ELSE e
    IN  IF matches = {} THEN [found |-> FALSE, value |-> <<>>]
        ELSE [found |-> TRUE,
              value |-> SubSeq(text, Group(first[1], first[2]),
                               Through(LineEnd(Group(first[1], first[2])), more))]

\* list(a_set): its members in some order
RECURSIVE ListOf(_)
ListOf(members) ==
    IF members = {} THEN <<>>
    ELSE LET m == CHOOSE x \in members : TRUE
         IN  <<m>> \o ListOf(members \ {m})

\* ResumeParser.extract_skills; list(set(found_skills)) as a set
ExtractSkills(text) ==
    LET text_lower == Lower(text)
        skills_section == SectionText(text, << <<"s","k","i","l","l","s">>, <<"s","k","i","l","l">> >>, 0)
        skills_list == SplitAny(skills_section.value, {",", "|", "-", "\n"})
    IN  { Title(SkillsKeywords[k]) :
             k \in { n \in 1..Len(SkillsKeywords) : IsSubstr(SkillsKeywords[n], text_lower) } }
        \cup (IF skills_section.found
              THEN { Strip(skills_list[k]) :
                       k \in { n \in 1..Len(skills_list) : Len(Strip(skills_list[n])) > 2 } }
              ELSE {})

\* JobDescriptionAnalyzer.tools_technologies
ToolsTechnologies == <<
    <<"a","w","s">>,
    <<"a","z","u","r","e">>,
    <<"g","c","p">>,
    <<"d","o","c","k","e","r">>,
    <<"k","u","b","e","r","n","e","t","e","s">>,
    <<"j","e","n","k","i","n","s">>,
    <<"g","i","t">>,
    <<"g","i","t","h","u","b">>,
    <<"g","i","t","l","a","b">>,
    <<"j","i","r","a">>,
    <<"c","o","n","f","l","u","e","n","c","e">>,
    <<"s","l","a","c","k">>,
    <<"t","a","b","l","e","a","u">>,
    <<"p","o","w","e","r"," ","b","i">>,
    <<"e","x","c","e","l">>,
    <<"l","o","o","k","e","r">>,
    <<"m","e","t","a","b","a","s","e">>,
    <<"p","o","s","t","g","r","e","s","q","l">>,
    <<"m","y","s","q","l">>,
    <<"m","o","n","g","o","d","b">>,
    <<"r","e","d","i","s">>,
    <<"e","l","a","s","t","i","c","s","e","a","r","c","h">>,
    <<"r","e","a","c","t">>,
    <<"a","n","g","u","l","a","r">>,
    <<"v","u","e">>,
    <<"n","e","x","t",".","j","s">>,
    <<"n","o","d","e",".","j","s">>,
    <<"e","x","p","r","e","s","s">>,
    <<"d","j","a","n","g","o">>,
    <<"f","l","a","s","k">>,
    <<"f","a","s","t","a","p","i">>,
    <<"s","p","r","i","n","g">>,
    <<"h","i","b","e","r","n","a","t","e">> >>

\* JobDescriptionAnalyzer.extract_required_skills; list(set(found_skills)) as a set
ExtractRequiredSkills(jd_text) ==
    LET jd_lower == Lower(jd_text)
        skills_section ==
            SectionText(jd_text,
                        << <<"r","e","q","u","i","r","e","d">>, <<"m","u","s","t"," ","h","a","v","e">>, <<"s","k","i","l","l","s">>, <<"s","k","i","l","l">>,
                           <<"q","u","a","l","i","f","i","c","a","t","i","o","n","s">>, <<"q","u","a","l","i","f","i","c","a","t","i","o","n">> >>, 10)
        in_section ==
            IF skills_section.found
            THEN { Title(CommonSkills[k]) :
                     k \in { n \in 1..Len(CommonSkills) :
                               IsSubstr(CommonSkills[n], Lower(skills_section.value)) } }
            ELSE {}
    IN  in_section \cup
        { Title(CommonSkills[k]) :
             k \in { n \in 1..Len(CommonSkills) :
                       /\ IsSubstr(CommonSkills[n], jd_lower)
                       /\ Title(CommonSkills[n]) \notin in_section } }

\* JobDescriptionAnalyzer.extract_priority_keywords. A pattern is the words
\* it asks for in a row, each one of some alternatives and each followed by
\* whitespace, and the group [a-z\s]+ after the last: the letters and
\* whitespace from the first letter on, or, where no letter follows the
\* whitespace, the last character of that whitespace. finditer goes on after
\* the end of each match.
ExtractPriorityKeywords(jd_text) ==
    LET jd_lower == Lower(jd_text)
        Letters == { c \in { jd_lower[i] : i \in 1..Len(jd_lower) } : IsLetter(c) }
        emphasis_patterns ==
            << << { <<"m","u","s","t">>, <<"r","e","q","u","i","r","e","d">>, <<"e","s","s","e","n","t","i","a","l">>, <<"m","a","n","d","a","t","o","r","y">>,
                    <<"c","r","i","t","i","c","a","l">>, <<"i","m","p","o","r","t","a","n","t">> } >>,
               << { <<"s","t","r","o","n","g">> }, { <<"e","x","p","e","r","i","e","n","c","e">>, <<"k","n","o","w","l","e","d","g","e">>, <<"u","n","d","e","r","s","t","a","n","d","i","n","g">> },
                  { <<"i","n">>, <<"o","f">>, <<"w","i","t","h">> } >>,
               << { <<"p","r","o","f","i","c","i","e","n","t">> }, { <<"i","n">>, <<"w","i","t","h">> } >>,
               << { <<"e","x","p","e","r","t">> }, { <<"i","n">>, <<"w","i","t","h">> } >> >>
        Word(pos, words) ==
            { w \in words : /\ pos + Len(w) - 1 <= Len(jd_lower)
                            /\ SubSeq(jd_lower, pos, pos + Len(w) - 1) = w }
        \* where the group of a match that starts at pos and is at word k
        \* of the pattern begins and ends, <<0, 0>> if there is no match
        RECURSIVE GroupAt(_, _, _)
        GroupAt(pattern, k, pos) ==
            LET found == Word(pos, pattern[k])
                after == pos + Len(CHOOSE w \in found : TRUE)
                q     == Span(jd_lower, after, Whitespace, TRUE)
            IN  IF found = {} \/ q = after THEN <<0, 0>>
                ELSE IF k < Len(pattern) THEN GroupAt(pattern, k + 1, q)
                ELSE IF q <= Len(jd_lower) /\ jd_lower[q] \in Letters
                THEN <<q, Span(jd_lower, q, Letters \cup Whitespace, TRUE) - 1>>
                ELSE IF q - after >= 2 THEN <<q - 1, q - 1>>
                ELSE <<0, 0>>
        \* the groups of the matches finditer yields from pos on, in order
        RECURSIVE Groups(_, _)
        Groups(pattern, pos) ==
            LET starts == { i \in pos..Len(jd_lower) : GroupAt(pattern, 1, i) # <<0, 0>> }
                i == CHOOSE s \in starts : \A o \in starts : s <= o
                g == GroupAt(pattern, 1, i)
            IN  IF starts = {} THEN <<>>
                ELSE <<SubSeq(jd_lower, g[1], g[2])>> \o Groups(pattern, g[2] + 1)
        found_groups == Join([p \in 1..Len(emphasis_patterns) |->
                                 Groups(emphasis_patterns[p], 1)], <<>>)
        RECURSIVE Collect(_)
        Collect(n) ==
            IF n = 0 THEN <<>>
            ELSE LET keywords == Collect(n - 1)
                     keyword  == Strip(found_groups[n])
                 IN  IF Len(keyword) > 3
                        /\ \A k \in 1..Len(keywords) : keywords[k] # keyword
                     THEN Append(keywords, Title(keyword))
                     ELSE keywords
    IN  Prefix(Collect(Len(found_groups)), 20)

\* JobDescriptionAnalyzer.extract_tools_technologies; list(set(found_tools))
\* as a set. A version pattern matches a whole run of letters that is
\* followed by whitespace and a number, or by whitespace and "(version n)";
\* such matches do not overlap, so finditer yields each of them.
ExtractToolsTechnologies(jd_text) ==
    LET jd_lower == Lower(jd_text)
        Digits == { DigitChar(d) : d \in 0..9 }
        IsLow(i) == i >= 1 /\ i <= Len(jd_lower) /\ IsLetter(jd_lower[i])
        runs == { r \in (1..Len(jd_lower)) \X (1..Len(jd_lower)) :
                    /\ r[1] <= r[2]
                    /\ \A k \in r[1]..r[2] : IsLow(k)
                    /\ ~IsLow(r[1] - 1) /\ ~IsLow(r[2] + 1) }
        Number(p) == p <= Len(jd_lower) /\ jd_lower[p] \in Digits
        Versioned(r) ==
            LET q == Span(jd_lower, r[2] + 1, Whitespace, TRUE)
                v == q + Len(<<"(","v","e","r","s","i","o","n">>)
                n == Span(jd_lower, v, Whitespace, TRUE)
                d == Span(jd_lower, n, Digits, TRUE)
            IN  /\ q > r[2] + 1
                /\ \/ Number(q)
                   \/ /\ v - 1 <= Len(jd_lower)
                      /\ SubSeq(jd_lower, q, v - 1) = <<"(","v","e","r","s","i","o","n">>
                      /\ n > v /\ d > n
                      /\ d <= Len(jd_lower) /\ jd_lower[d] = ")"
        listed == { Title(ToolsTechnologies[k]) :
                      k \in { n \in 1..Len(ToolsTechnologies) :
                                IsSubstr(ToolsTechnologies[n], jd_lower) } }
        tools == { SubSeq(jd_lower, r[1], r[2]) : r \in { x \in runs : Versioned(x) } }
    IN  listed \cup { Title(tool) : tool \in { t \in tools : t \notin listed /\ Len(t) > 2 } }

\* parse_resume as far as the skills go: extract_skills, and the points
\* calculate_ats_score gives for their number
ParseSkills ==
    /\ svc_pc = "called"
    /\ svc_call.op = "extract_skills"
    /\ LET skills == ExtractSkills(svc_call.text)
       IN  svc_ret' = [skills |-> skills,
                       skills_points |->
                          AtsSkills([score |-> 0, issues |-> <<>>, positive_aspects |-> <<>>],
                                    [skills |-> ListOf(skills)]).score]
    /\ svc_pc' = "returned"
    /\ UNCHANGED svc_call
    /\ UNCHANGED svcOthers

\* JobDescriptionAnalyzer.analyze_job_description; role_expectations, a text
\* cut from the description, is left out
AnalyzeJobDescription ==
    /\ svc_pc = "called"
    /\ svc_call.op = "analyze_job_description"
    /\ svc_ret' = [required_skills |-> ExtractRequiredSkills(svc_call.text),
                   priority_keywords |-> ExtractPriorityKeywords(svc_call.text),
                   tools_technologies |-> ExtractToolsTechnologies(svc_call.text)]
    /\ svc_pc' = "returned"
    /\ UNCHANGED svc_call
    /\ UNCHANGED svcOthers

---------------------------------------------------------------------------
(* The inputs of a customization and the specifications.                   *)

\* Skills a resume lists (vocabulary matches are title-cased, entries taken
\* from a "Skills:" line keep their case) and skills a job description requires.
ResumeSkillVocab ==
    { <<"P","y","t","h","o","n">>, <<"p","y","t","h","o","n">>,
      <<"M","y","S","Q","L">>, <<"R">> }

JdSkillVocab ==
    { <<"P","y","t","h","o","n">>, <<"S","q","l">>, <<"D","o","c","k","e","r">> }

\* Priority keywords of a job description; those of a customization are a
\* prefix of this list.
KeywordPool ==
    << <<"P","y","t","h">>, <<"y","t","h","o">>, <<"t","h","o","n">>,
       <<"M","y","S","q">>, <<"y","s","q","l">>, <<"c","l","o","u","d">> >>

ProjectPool ==
    { [name |-> Some(<<"S","h","o","p">>),
       description |-> <<"P","y","t","h","o","n"," ","a","n","d"," ","S","Q","L"," ","s","t","o","r","e">>,
       tech |-> << <<"P","y","t","h","o","n">>, <<"S","q","l">> >>],
      [name |-> Some(<<"B","l","o","g">>),
       description |-> <<"A"," ","p","y","t","h","o","n"," ","b","l","o","g">>,
       tech |-> << <<"P","y","t","h","o","n">> >>],
      [name |-> Some(<<"N","o","t","e","s">>),
       description |-> <<"A"," ","p","y","t","h","o","n"," ","b","l","o","g">>,
       tech |-> << <<"P","y","t","h","o","n">> >>],
      [name |-> Some(<<"B","a","n","d">>),
       description |-> <<"P","l","a","y","e","d"," ","g","u","i","t","a","r">>,
       tech |-> << >>] }

ExperiencePool ==
    { [company |-> Some(<<"A","c","m","e">>), role |-> Some(<<"I","n","t","e","r","n">>),
       duration |-> Some(<<"2","0","2","0"," ","-"," ","2","0","2","1">>),
       description |-> <<"W","r","o","t","e"," ","P","y","t","h","o","n"," ","t","o","o","l","s">>],
      [company |-> NoneText, role |-> Some(<<"C","a","s","h","i","e","r">>),
       duration |-> NoneText,
       description |-> <<"S","o","l","d"," ","g","o","o","d","s">>] }

SummaryValues == { NoneText, Some(<<"K","e","e","n"," ","s","t","u","d","e","n","t">>) }

NoEducation == [present |-> FALSE]

NoInt == [present |-> FALSE, value |-> 0]

KeyUnset == [present |-> FALSE, value |-> <<>>]
KeySet   == [present |-> TRUE,  value |-> <<"k">>]

---------------------------------------------------------------------------
(* ResumeGenerator: the documents generate_pdf and generate_docx build     *)
(* from resume data. A field of the data is None (NoneText) or a string;   *)
(* the education dictionary is empty (<<>>) or carries the four keys that  *)
(* extract_education gives it.                                             *)

\* f"{v}" of a value that is None or a string
Formatted(v) == IF v.present THEN v.value ELSE <<"N","o","n","e">>

\* reportlab flowables: Paragraph(text, style) and Spacer(1, height * inch)
Paragraph(text, style) == [flowable |-> "Paragraph", text |-> text, style |-> style]
Spacer(tenths) ==
    [flowable |-> "Spacer", text |-> <<>>,
     style |-> IF tenths = 1 THEN "0.1 inch" ELSE "0.2 inch"]

RECURSIVE Chain(_)
Chain(parts) == IF parts = <<>> THEN <<>> ELSE Head(parts) \o Chain(Tail(parts))

\* The story of generate_pdf.
PdfStory(data) ==
    LET Experience(exp) ==
            << Paragraph(<<"<","b",">">> \o Formatted(exp.role) \o <<"<","/","b",">">>
                         \o (IF Truthy(exp.company) THEN <<" ","-"," ">> \o exp.company.value ELSE <<>>)
                         \o (IF Truthy(exp.duration)
                             THEN <<" ","(">> \o exp.duration.value \o <<")">> ELSE <<>>),
                         "Normal") >>
            \o (IF NonEmpty(exp.description)
                THEN << Paragraph(exp.description, "Normal") >> ELSE <<>>)
            \o << Spacer(1) >>
        Project(project) ==
            << Paragraph(<<"<","b",">">> \o Formatted(project.name) \o <<"<","/","b",">">>
                         \o (IF NonEmpty(project.tech)
                             THEN <<" ","-"," ">> \o Join(project.tech, <<","," ">>) ELSE <<>>),
                         "Normal") >>
            \o (IF NonEmpty(project.description)
                THEN << Paragraph(project.description, "Normal") >> ELSE <<>>)
            \o << Spacer(1) >>
        edu == data.education
        edu_text ==
            (IF Truthy(edu.degree) THEN <<"<","b",">">> \o edu.degree.value \o <<"<","/","b",">">> ELSE <<>>)
            \o (IF Truthy(edu.field) THEN <<" ","i","n"," ">> \o edu.field.value ELSE <<>>)
            \o (IF Truthy(edu.institution) THEN <<" ","-"," ">> \o edu.institution.value ELSE <<>>)
            \o (IF Truthy(edu.year) THEN <<" ","(">> \o edu.year.value \o <<")">> ELSE <<>>)
    IN  (IF Truthy(data.name)
         THEN << Paragraph(data.name.value, "CustomTitle"), Spacer(1) >> ELSE <<>>)
        \o (IF Truthy(data.summary)
            THEN << Paragraph(<<"S","u","m","m","a","r","y">>, "CustomHeading"),
                    Paragraph(data.summary.value, "Normal"), Spacer(2) >> ELSE <<>>)
        \o (IF NonEmpty(data.skills)
            THEN << Paragraph(<<"S","k","i","l","l","s">>, "CustomHeading"),
                    Paragraph(Join(data.skills, <<","," ">>), "Normal"), Spacer(2) >> ELSE <<>>)
        \o (IF NonEmpty(data.experience)
            THEN << Paragraph(<<"E","x","p","e","r","i","e","n","c","e">>, "CustomHeading") >>
                 \o Chain([i \in 1..Len(data.experience) |-> Experience(data.experience[i])])
                 \o << Spacer(1) >>
            ELSE <<>>)
        \o (IF NonEmpty(data.projects)
            THEN << Paragraph(<<"P","r","o","j","e","c","t","s">>, "CustomHeading") >>
                 \o Chain([i \in 1..Len(data.projects) |-> Project(data.projects[i])])
                 \o << Spacer(1) >>
            ELSE <<>>)
        \o (IF DictTruthy(edu)
            THEN << Paragraph(<<"E","d","u","c","a","t","i","o","n">>, "CustomHeading") >>
                 \o (IF NonEmpty(edu_text) THEN << Paragraph(edu_text, "Normal") >> ELSE <<>>)
            ELSE <<>>)

\* python-docx: a paragraph is its style and its runs; add_paragraph(text)
\* and add_run(text) leave the text out when it is empty or None.
Run(text, bold) == [text |-> text, bold |-> bold]
DocxParagraph(style, runs) == [flowable |-> "Paragraph", style |-> style, runs |-> runs]
TextParagraph(text, style) ==
    DocxParagraph(style, IF NonEmpty(text) THEN << Run(text, FALSE) >> ELSE <<>>)
Heading2(text) == TextParagraph(text, "Heading 2")

\* The body of the document of generate_docx.
DocxBody(data) ==
    LET Experience(exp) ==
            << DocxParagraph("Normal",
                   << Run(IF exp.role.present THEN exp.role.value ELSE <<>>, TRUE) >>
                   \o (IF Truthy(exp.company)
                       THEN << Run(<<" ","-"," ">> \o exp.company.value, FALSE) >> ELSE <<>>)
                   \o (IF Truthy(exp.duration)
                       THEN << Run(<<" ","(">> \o exp.duration.value \o <<")">>, FALSE) >>
                       ELSE <<>>)) >>
            \o (IF NonEmpty(exp.description)
                THEN << TextParagraph(exp.description, "List Bullet") >> ELSE <<>>)
        Project(project) ==
            << DocxParagraph("Normal",
                   << Run(IF project.name.present THEN project.name.value ELSE <<>>, TRUE) >>
                   \o (IF NonEmpty(project.tech)
                       THEN << Run(<<" ","-"," ">> \o Join(project.tech, <<","," ">>), FALSE) >>
                       ELSE <<>>)) >>
            \o (IF NonEmpty(project.description)
                THEN << TextParagraph(project.description, "List Bullet") >> ELSE <<>>)
        edu == data.education
        edu_para ==
            DocxParagraph("Normal",
                (IF Truthy(edu.degree) THEN << Run(edu.degree.value, TRUE) >> ELSE <<>>)
                \o (IF Truthy(edu.field)
                    THEN << Run(<<" ","i","n"," ">> \o edu.field.value, FALSE) >> ELSE <<>>)
                \o (IF Truthy(edu.institution)
                    THEN << Run(<<" ","-"," ">> \o edu.institution.value, FALSE) >> ELSE <<>>)
                \o (IF Truthy(edu.year)
                    THEN << Run(<<" ","(">> \o edu.year.value \o <<")">>, FALSE) >> ELSE <<>>))
        Spacing == DocxParagraph("Normal", <<>>)
    IN  (IF Truthy(data.name)
         THEN << DocxParagraph("Normal", << Run(data.name.value, TRUE) >>) >> ELSE <<>>)
        \o << Spacing >>
        \o (IF Truthy(data.summary)
            THEN << Heading2(<<"S","u","m","m","a","r","y">>),
                    TextParagraph(data.summary.value, "Normal"), Spacing >> ELSE <<>>)
        \o (IF NonEmpty(data.skills)
            THEN << Heading2(<<"S","k","i","l","l","s">>),
                    TextParagraph(Join(data.skills, <<","," ">>), "Normal"), Spacing >> ELSE <<>>)
        \o (IF NonEmpty(data.experience)
            THEN << Heading2(<<"E","x","p","e","r","i","e","n","c","e">>) >>
                 \o Chain([i \in 1..Len(data.experience) |-> Experience(data.experience[i])])
                 \o << Spacing >>
            ELSE <<>>)
        \o (IF NonEmpty(data.projects)
            THEN << Heading2(<<"P","r","o","j","e","c","t","s">>) >>
                 \o Chain([i \in 1..Len(data.projects) |-> Project(data.projects[i])])
                 \o << Spacing >>
            ELSE <<>>)
        \o (IF DictTruthy(edu) THEN << Heading2(<<"E","d","u","c","a","t","i","o","n">>), edu_para >> ELSE <<>>)

\* self.output_dir / f"{output_filename}{suffix}"
GeneratedPath(output_filename, suffix) ==
    <<"u","p","l","o","a","d","s","/","g","e","n","e","r","a","t","e","d","_","r","e","s","u","m","e","s","/">> \o output_filename \o suffix

\* What generate_pdf and generate_docx write, and the path they return.
GeneratedPdf(data, output_filename) ==
    [file_path |-> GeneratedPath(output_filename, <<".","p","d","f">>), document |-> PdfStory(data)]

GeneratedDocx(data, output_filename) ==
    [file_path |-> GeneratedPath(output_filename, <<".","d","o","c","x">>), document |-> DocxBody(data)]

\* ResumeGenerator.generate_pdf
GeneratePdf ==
    /\ svc_pc = "called"
    /\ svc_call.op = "generate_pdf"
    /\ svc_ret' = GeneratedPdf(svc_call.resume_data, svc_call.output_filename)
    /\ svc_pc' = "returned"
    /\ UNCHANGED svc_call
    /\ UNCHANGED svcOthers

\* ResumeGenerator.generate_docx
GenerateDocx ==
    /\ svc_pc = "called"
    /\ svc_call.op = "generate_docx"
    /\ svc_ret' = GeneratedDocx(svc_call.resume_data, svc_call.output_filename)
    /\ svc_pc' = "returned"
    /\ UNCHANGED svc_call
    /\ UNCHANGED svcOthers

---------------------------------------------------------------------------

(* The request handlers of the routers over the tables of models.py. A row *)
(* is a record with the columns the handlers read or write; 0 stands for   *)
(* NULL and for an id the request leaves out; ids are given out in rising  *)
(* order. Requests are handled one after the other.                        *)

Users == {1, 2}

\* Most resumes uploaded and most customized resumes made in one behaviour,
\* and most rows the requests of one behaviour add to customized_resumes
\* and applications together.
MaxResumes == 2
MaxCustomized == 2
MaxCreated == 2

EmptyDb ==
    [resumes |-> {}, job_descriptions |-> {}, customized_resumes |-> {},
     applications |-> {}, user_profiles |-> {},
     last_id |-> [resumes |-> 0, job_descriptions |-> 0,
                  customized_resumes |-> 0, applications |-> 0]]

\* The rows added so far to customized_resumes and applications.
RowsCreated(d) == d.last_id.customized_resumes + d.last_id.applications

NoRequest == [op |-> "none"]

\* A response: the handler, the user of the token, the status, the rows the
\* request named by id and the rows the body returns, as <<table, id>> pairs.
Reply(op, user, status, named, body) ==
    [op |-> op, user |-> user, status |-> status, named |-> named, body |-> body]

NoResponse == Reply("none", 0, 0, {}, {})

DbIdle ==
    /\ db = EmptyDb
    /\ files = {}
    /\ request = NoRequest
    /\ last_response = NoResponse

\* The user a row belongs to, 0 if there is none: its user_id, and for a
\* customized resume the user_id of the resume it was made from.
Owner(d, table, id) ==
    LET rows == { r \in d[table] : r.id = id }
        row  == CHOOSE r \in rows : TRUE
    IN  IF rows = {} THEN 0
        ELSE IF table = "customized_resumes"
        THEN LET originals == { r \in d.resumes : r.id = row.original_resume_id }
             IN  IF originals = {} THEN 0 ELSE (CHOOSE r \in originals : TRUE).user_id
        ELSE row.user_id

\* Path(name).suffix: from the last dot on, none if the name has no dot past
\* its first character
Suffix(name) ==
    LET dots == { i \in 2..Len(name) : name[i] = "." }
    IN  IF dots = {} THEN <<>>
        ELSE SubSeq(name, CHOOSE i \in dots : \A j \in dots : j <= i, Len(name))

ParseFile_Lenient(file) == [raised |-> FALSE, value |-> ParseResult(file.text)]

\* ResumeParser.parse_resume on the temporary copy of an uploaded file, which
\* keeps the suffix of the file's name: extract_text raises for a suffix it
\* does not know and for a document the reader cannot read.
ParseFile(file) ==
    LET file_ext == Lower(Suffix(file.filename))
    IN  IF file_ext \in { <<".","p","d","f">>, <<".","d","o","c","x">>, <<".","d","o","c">> }
           /\ file.readable
        THEN [raised |-> FALSE, value |-> ParseResult(file.text)]
        ELSE [raised |-> TRUE, value |-> <<>>]

AddResume_Overwrite(rows, resume) ==
    { [r EXCEPT !.parsed_data = resume.parsed_data, !.ats_score = resume.ats_score,
                !.ats_analysis = resume.ats_analysis] : r \in rows } \cup { resume }

\* db.add(resume); db.commit()
AddResume(rows, resume) == rows \cup { resume }

\* What db.commit() stores for a JSON column of the profile that the handler
\* assigned: a list the handler built or took from the parsed data is
\* written; the list loaded from the row, extended in place and assigned
\* back, is the object the session holds as the loaded value, compares
\* equal to it, and is left out of the UPDATE (the columns are plain JSON,
\* without mutation tracking), so db.refresh() brings the stored list back.
SyncedList(stored, parsed_list) ==
    IF parsed_list = <<>> THEN stored
    ELSE IF stored = <<>> THEN parsed_list
    ELSE stored

\* upload_resume from the parsed data on: the Resume row, then the profile
\* of the user, created if there is none, with the skills merged in (as a
\* set: the list is built from one) and experience and projects synced.
SaveUpload(d, user, parsed) ==
    LET resume == [id |-> d.last_id.resumes + 1, user_id |-> user,
                   parsed_data |-> parsed, ats_score |-> parsed.ats_score,
                   ats_analysis |-> parsed.ats_analysis]
        found == { p \in d.user_profiles : p.user_id = user }
        user_profile ==
            IF found = {}
            THEN [user_id |-> user, technical_skills |-> {},
                  experience |-> <<>>, projects |-> <<>>]
            ELSE CHOOSE p \in found : TRUE
        synced ==
            [user_profile EXCEPT
                !.technical_skills = @ \cup { parsed.skills[i] : i \in 1..Len(parsed.skills) },
                !.experience = SyncedList(@, parsed.experience),
                !.projects = SyncedList(@, parsed.projects)]
    IN  [d EXCEPT !.resumes = AddResume(@, resume),
                  !.last_id.resumes = @ + 1,
                  !.user_profiles = (@ \ found) \cup { synced }]

\* The files a user uploads: a name, whether the reader can read the
\* document, and what its text holds.
UploadFiles ==
    LET SkilledText ==
            [word_count |-> 400, bullet_points |-> 6, has_email |-> TRUE,
             has_phone |-> TRUE,
             skills |-> << <<"J","a","v","a">>, <<"P","y","t","h","o","n">> >>,
             education_match |-> CHOOSE m \in EducationMatches : m.matched,
             experience |-> << CHOOSE e \in ExperiencePool : e.company # NoneText >>,
             projects |-> << CHOOSE p \in ProjectPool : p.tech = <<>>,
                             CHOOSE p \in ProjectPool : Len(p.tech) = 2 >>,
             summary |-> NoneText]
        BareText ==
            [word_count |-> 12, bullet_points |-> 0, has_email |-> FALSE,
             has_phone |-> FALSE, skills |-> <<>>,
             education_match |-> CHOOSE m \in EducationMatches : ~m.matched,
             experience |-> <<>>, projects |-> <<>>, summary |-> NoneText]
    IN  { [filename |-> <<"c","v",".","p","d","f">>, readable |-> TRUE, text |-> SkilledText],
          [filename |-> <<"c","v",".","d","o","c","x">>, readable |-> TRUE, text |-> BareText],
          [filename |-> <<"c","v",".","d","o","c">>, readable |-> FALSE, text |-> BareText],
          [filename |-> <<"c","v",".","t","x","t">>, readable |-> TRUE, text |-> BareText],
          [filename |-> <<".","p","d","f">>, readable |-> TRUE, text |-> BareText] }

\* POST /upload of the resume router. The check of the name and the parse
\* sit in one try block whose handler answers 500 for whatever was raised,
\* the 400 of the check included; parse_resume is called once, after the check.
UploadResume ==
    /\ request = NoRequest
    /\ \E user \in Users, file \in UploadFiles :
         LET accepted ==
                 \E ext \in { <<".","p","d","f">>, <<".","d","o","c","x">>, <<".","d","o","c">> } :
                    /\ Len(file.filename) >= Len(ext)
                    /\ SubSeq(file.filename, Len(file.filename) - Len(ext) + 1,
                              Len(file.filename)) = ext
             parsed == ParseFile(file)
             sent   == [filename |-> file.filename, readable |-> file.readable]
         IN  IF ~accepted
             THEN /\ last_response' = Reply("upload_resume", user, 500, {}, {}) @@
                                 [file |-> sent, parse_calls |-> 0]
                  /\ UNCHANGED db
             ELSE IF parsed.raised
             THEN /\ last_response' = Reply("upload_resume", user, 500, {}, {}) @@
                                 [file |-> sent, parse_calls |-> 1]
                  /\ UNCHANGED db
             ELSE /\ db.last_id.resumes < MaxResumes
                  /\ db' = SaveUpload(db, user, parsed.value)
                  /\ last_response' = Reply("upload_resume", user, 200, {},
                                       { <<"resumes", db.last_id.resumes + 1>> }) @@
                                 [file |-> sent, parse_calls |-> 1]
    /\ UNCHANGED request
    /\ UNCHANGED czVars
    /\ UNCHANGED dbOthers

\* GET / of the resume router
GetResumes ==
    /\ request = NoRequest
    /\ \E user \in Users :
         last_response' = Reply("get_resumes", user, 200, {},
                           { <<"resumes", r.id>> : r \in { x \in db.resumes : x.user_id = user } })
    /\ UNCHANGED <<db, request>>
    /\ UNCHANGED czVars
    /\ UNCHANGED dbOthers

\* GET /{resume_id} of the resume router
GetResume ==
    /\ request = NoRequest
    /\ \E user \in Users, resume_id \in 1..MaxResumes :
         LET resume == { r \in db.resumes : r.id = resume_id /\ r.user_id = user }
             named  == { <<"resumes", resume_id>> }
         IN  last_response' = IF resume = {} THEN Reply("get_resume", user, 404, named, {})
                         ELSE Reply("get_resume", user, 200, named, named)
    /\ UNCHANGED <<db, request>>
    /\ UNCHANGED czVars
    /\ UNCHANGED dbOthers

\* DELETE /{resume_id} of the resume router; the session sets the
\* original_resume_id of the customized versions of a deleted resume to NULL
\* (Resume.customized_versions has no delete cascade).
DeleteResume ==
    /\ request = NoRequest
    /\ \E user \in Users, resume_id \in 1..MaxResumes :
         LET resume == { r \in db.resumes : r.id = resume_id /\ r.user_id = user }
             named  == { <<"resumes", resume_id>> }
         IN  IF resume = {}
             THEN /\ last_response' = Reply("delete_resume", user, 404, named, {})
                  /\ UNCHANGED db
             ELSE /\ db' = [db EXCEPT
                              !.resumes = @ \ resume,
                              !.customized_resumes =
                                 { IF c.original_resume_id = resume_id
                                   THEN [c EXCEPT !.original_resume_id = 0] ELSE c : c \in @ }]
                  /\ last_response' = Reply("delete_resume", user, 200, named, {})
    /\ UNCHANGED request
    /\ UNCHANGED czVars
    /\ UNCHANGED dbOthers

\* POST /customize of the customize router up to the call of
\* AIService.customize_resume, which the actions of the customization run.
CustomizeRequest ==
    /\ request = NoRequest
    /\ cz_pc = "off"
    /\ \E user \in Users, resume_id \in 1..MaxResumes, job_description_id \in 1..(db.last_id.job_descriptions + 1) :
         LET resume == { r \in db.resumes : r.id = resume_id /\ r.user_id = user }
             jd     == { j \in db.job_descriptions :
                            j.id = job_description_id /\ j.user_id = user }
             named  == { <<"resumes", resume_id>>, <<"job_descriptions", job_description_id>> }
         IN  IF resume = {} \/ jd = {}
             THEN /\ last_response' = Reply("customize_resume", user, 404, named, {})
                  /\ UNCHANGED <<request, czVars>>
             ELSE /\ db.last_id.customized_resumes < MaxCustomized
                  /\ RowsCreated(db) < MaxCreated
                  /\ request' = [op |-> "customize_resume", user |-> user,
                                 resume_id |-> resume_id,
                                 job_description_id |-> job_description_id]
                  /\ last_response' = NoResponse
                  /\ LET parsed == (CHOOSE r \in resume : TRUE).parsed_data
                     IN  resume_data' =
                           [skills |-> parsed.skills, projects |-> parsed.projects,
                            experience |-> parsed.experience,
                            education |-> parsed.education, summary |-> parsed.summary]
                  /\ LET j == CHOOSE j \in jd : TRUE
                     IN  job_description' =
                           [required_skills |-> j.required_skills,
                            priority_keywords |-> j.priority_keywords]
                  /\ cz_pc' = "idle"
                  /\ UNCHANGED <<cz_i, enhanced_projects, enhanced_experience,
                                 relevance_score, missing_skills, llm_calls, cz_result>>
    /\ UNCHANGED db
    /\ UNCHANGED dbOthers

\* current_user.name
UserName(user) == <<"U","s","e","r"," ">> \o IntToText(user)

\* The copy of customized_data the customize router hands to the generator:
\* the name of the user is added, customized_data holding none.
WithName(customized_data, user) ==
    [name |-> Some(UserName(user)), summary |-> Some(customized_data.summary),
     skills |-> customized_data.skills, experience |-> customized_data.experience,
     projects |-> customized_data.projects, education |-> customized_data.education]

\* f"customized_{a}_{b}_{c}" and f"customized_{a}_{b}"
CustomizedName(numbers) ==
    <<"c","u","s","t","o","m","i","z","e","d","_">> \o Join([i \in 1..Len(numbers) |-> IntToText(numbers[i])], <<"_">>)

\* A file is written: what was at its path is replaced.
WriteFile(fs, file) == { f \in fs : f.file_path # file.file_path } \cup { file }

\* os.path.exists(file_path)
PathExists(fs, file_path) == \E f \in fs : f.file_path = file_path

\* The rest of POST /customize, once customize_resume has returned: the file
\* is generated from a copy of customized_data and the row is saved. The
\* arguments and locals of the call are gone with it.
SaveCustomized ==
    /\ request # NoRequest
    /\ cz_pc \in {"done", "raised"}
    /\ LET id    == db.last_id.customized_resumes + 1
           named == { <<"resumes", request.resume_id>>,
                      <<"job_descriptions", request.job_description_id>> }
           pdf   == GeneratedPdf(WithName(cz_result.customized_data, request.user),
                                 CustomizedName(<<request.user, request.resume_id,
                                                  request.job_description_id>>))
       IN  IF cz_pc = "raised"
           THEN /\ last_response' = Reply("customize_resume", request.user, 500, named, {})
                /\ UNCHANGED <<db, files>>
           ELSE /\ files' = WriteFile(files, pdf)
                /\ db' = [db EXCEPT
                            !.customized_resumes = @ \cup
                               { [id |-> id,
                                  original_resume_id |-> request.resume_id,
                                  job_description_id |-> request.job_description_id,
                                  customized_data |-> cz_result.customized_data,
                                  changes_made |-> cz_result.changes_made,
                                  relevance_score |-> cz_result.relevance_score,
                                  generated_file_path |-> pdf.file_path] },
                            !.last_id.customized_resumes = id]
                /\ last_response' = Reply("customize_resume", request.user, 200, named,
                                     { <<"customized_resumes", id>> })
    /\ request' = NoRequest
    /\ resume_data' = [skills |-> <<>>, projects |-> <<>>, experience |-> <<>>,
                       education |-> [present |-> FALSE], summary |-> NoneText]
    /\ job_description' = [required_skills |-> <<>>, priority_keywords |-> <<>>]
    /\ cz_pc' = "off"
    /\ cz_i' = 1
    /\ enhanced_projects' = <<>>
    /\ enhanced_experience' = <<>>
    /\ relevance_score' = 0
    /\ missing_skills' = <<>>
    /\ llm_calls' = <<>>
    /\ cz_result' = EmptyResult
    /\ UNCHANGED <<gwVars, prVars, svcVars>>

\* The customized resumes a user reaches by id: the query joins Resume on
\* original_resume_id and filters by the user of that resume.
CustomizedOf(user, customized_id) ==
    { c \in db.customized_resumes :
        /\ c.id = customized_id
        /\ \E r \in db.resumes : r.id = c.original_resume_id /\ r.user_id = user }

\* GET /{customized_id} of the customize router
GetCustomizedResume ==
    /\ request = NoRequest
    /\ \E user \in Users, customized_id \in 1..MaxCustomized :
         LET named == { <<"customized_resumes", customized_id>> }
         IN  last_response' = IF CustomizedOf(user, customized_id) = {}
                         THEN Reply("get_customized_resume", user, 404, named, {})
                         ELSE Reply("get_customized_resume", user, 200, named, named)
    /\ UNCHANGED <<db, request>>
    /\ UNCHANGED czVars
    /\ UNCHANGED dbOthers

\* GET /resume/{resume_id} of the customize router
GetCustomizedVersions ==
    /\ request = NoRequest
    /\ \E user \in Users, resume_id \in 1..MaxResumes :
         LET resume == { r \in db.resumes : r.id = resume_id /\ r.user_id = user }
             named  == { <<"resumes", resume_id>> }
         IN  last_response' =
               IF resume = {} THEN Reply("get_customized_versions", user, 404, named, {})
               ELSE Reply("get_customized_versions", user, 200, named,
                          { <<"customized_resumes", c.id>> :
                               c \in { x \in db.customized_resumes :
                                          x.original_resume_id = resume_id } })
    /\ UNCHANGED <<db, request>>
    /\ UNCHANGED czVars
    /\ UNCHANGED dbOthers

\* GET /{customized_id}/download of the customize router: a DOCX is
\* generated from a copy of customized_data on every request; for a PDF the
\* file at generated_file_path is sent, generated only if there is none.
\* No row is written.
DownloadCustomizedResume ==
    /\ request = NoRequest
    /\ \E user \in Users, customized_id \in 1..MaxCustomized, format \in {"pdf", "docx"} :
         LET named == { <<"customized_resumes", customized_id>> }
             custom_resume == CHOOSE c \in CustomizedOf(user, customized_id) : TRUE
             customized_data == WithName(custom_resume.customized_data, user)
             output_filename == CustomizedName(<<user, custom_resume.id>>)
             generated ==
                 IF format = "docx"
                 THEN { GeneratedDocx(customized_data, output_filename) }
                 ELSE IF ~PathExists(files, custom_resume.generated_file_path)
                 THEN { GeneratedPdf(customized_data, output_filename) }
                 ELSE {}
             file_path ==
                 IF generated = {} THEN custom_resume.generated_file_path
                 ELSE (CHOOSE f \in generated : TRUE).file_path
         IN  IF CustomizedOf(user, customized_id) = {}
             THEN /\ last_response' =
                        Reply("download_customized_resume", user, 404, named, {})
                  /\ UNCHANGED files
             ELSE /\ files' = IF generated = {} THEN files
                               ELSE WriteFile(files, CHOOSE f \in generated : TRUE)
                  /\ last_response' =
                        Reply("download_customized_resume", user, 200, named, named) @@
                            [file_path |-> file_path]
    /\ UNCHANGED <<db, request>>
    /\ UNCHANGED czVars
    /\ UNCHANGED <<gwVars, prVars, svcVars>>

\* Most applications made in one behaviour.
MaxApplications == 1

\* The ids of job descriptions a request names: those given out so far and
\* the next one
JobIds == 1..(db.last_id.job_descriptions + 1)

\* GET /{jd_id} of the job router
GetJobDescription ==
    /\ request = NoRequest
    /\ \E user \in Users, jd_id \in JobIds :
         LET jd    == { j \in db.job_descriptions : j.id = jd_id /\ j.user_id = user }
             named == { <<"job_descriptions", jd_id>> }
         IN  last_response' = IF jd = {} THEN Reply("get_job_description", user, 404, named, {})
                         ELSE Reply("get_job_description", user, 200, named, named)
    /\ UNCHANGED <<db, request>>
    /\ UNCHANGED czVars
    /\ UNCHANGED dbOthers

\* DELETE /{jd_id} of the job router; the session sets the job_description_id
\* of the customized resumes and of the applications of a deleted job
\* description to NULL (neither relationship has a delete cascade).
DeleteJobDescription ==
    /\ request = NoRequest
    /\ \E user \in Users, jd_id \in JobIds :
         LET jd    == { j \in db.job_descriptions : j.id = jd_id /\ j.user_id = user }
             named == { <<"job_descriptions", jd_id>> }
         IN  IF jd = {}
             THEN /\ last_response' = Reply("delete_job_description", user, 404, named, {})
                  /\ UNCHANGED db
             ELSE /\ db' = [db EXCEPT
                              !.job_descriptions = @ \ jd,
                              !.customized_resumes =
                                 { IF c.job_description_id = jd_id
                                   THEN [c EXCEPT !.job_description_id = 0] ELSE c : c \in @ },
                              !.applications =
                                 { IF a.job_description_id = jd_id
                                   THEN [a EXCEPT !.job_description_id = 0] ELSE a : a \in @ }]
                  /\ last_response' = Reply("delete_job_description", user, 200, named, {})
    /\ UNCHANGED request
    /\ UNCHANGED czVars
    /\ UNCHANGED dbOthers

Applied == <<"A","p","p","l","i","e","d">>

\* db.add(application); db.commit(): an Application row with the next id.
\* company_name and role, which no handler reads again, are left out.
AddApplication(d, user, job_description_id, customized_resume_id, status) ==
    [d EXCEPT !.applications = @ \cup
                 { [id |-> d.last_id.applications + 1, user_id |-> user,
                    job_description_id |-> job_description_id,
                    customized_resume_id |-> customized_resume_id,
                    status |-> status, notes |-> NoneText] },
              !.last_id.applications = @ + 1]

\* POST / of the application router: the job description is looked up by id
\* and user, the customized resume, if one is given, by id.
CreateApplication ==
    /\ request = NoRequest
    /\ \E user \in Users, job_description_id \in JobIds,
          customized_resume_id \in 0..MaxCustomized :
         LET jd == { j \in db.job_descriptions :
                        j.id = job_description_id /\ j.user_id = user }
             custom_resume == { c \in db.customized_resumes : c.id = customized_resume_id }
             named == { <<"job_descriptions", job_description_id>> } \cup
                      (IF customized_resume_id # 0
                       THEN { <<"customized_resumes", customized_resume_id>> } ELSE {})
         IN  IF jd = {} \/ (customized_resume_id # 0 /\ custom_resume = {})
             THEN /\ last_response' = Reply("create_application", user, 404, named, {})
                  /\ UNCHANGED db
             ELSE /\ db.last_id.applications < MaxApplications
                  /\ RowsCreated(db) < MaxCreated
                  /\ db' = AddApplication(db, user, job_description_id,
                                          customized_resume_id, Applied)
                  /\ last_response' = Reply("create_application", user, 200, named,
                                       { <<"applications", db.last_id.applications + 1>> })
    /\ UNCHANGED request
    /\ UNCHANGED czVars
    /\ UNCHANGED dbOthers

\* POST / of the tracker router: the row is made from the request as it is.
TrackApplication ==
    /\ request = NoRequest
    /\ db.last_id.applications < MaxApplications
    /\ RowsCreated(db) < MaxCreated
    /\ \E user \in Users, job_description_id \in {0} \cup JobIds :
         /\ db' = AddApplication(db, user, job_description_id, 0, Applied)
         /\ last_response' =
               Reply("track_application", user, 200,
                     IF job_description_id # 0
                     THEN { <<"job_descriptions", job_description_id>> } ELSE {},
                     { <<"applications", db.last_id.applications + 1>> })
    /\ UNCHANGED request
    /\ UNCHANGED czVars
    /\ UNCHANGED dbOthers

\* GET / of the application router and of the tracker router
GetApplications ==
    /\ request = NoRequest
    /\ \E user \in Users :
         last_response' =
            Reply("get_applications", user, 200, {},
                  { <<"applications", a.id>> :
                       a \in { x \in db.applications : x.user_id = user } })
    /\ UNCHANGED <<db, request>>
    /\ UNCHANGED czVars
    /\ UNCHANGED dbOthers

\* GET /{app_id} of the application router
GetApplication ==
    /\ request = NoRequest
    /\ \E user \in Users, app_id \in 1..MaxApplications :
         LET application == { a \in db.applications : a.id = app_id /\ a.user_id = user }
             named == { <<"applications", app_id>> }
         IN  last_response' =
               IF application = {} THEN Reply("get_application", user, 404, named, {})
               ELSE Reply("get_application", user, 200, named, named)
    /\ UNCHANGED <<db, request>>
    /\ UNCHANGED czVars
    /\ UNCHANGED dbOthers

\* The change a request asks for: a new status and empty notes
ApplicationUpdates ==
    { [status |-> Some(<<"O","f","f","e","r">>), notes |-> Some(<<>>)] }

\* The row after an update: the status is written if it is not empty, the
\* notes if write_notes says so.
Updated(application, app_update, write_notes) ==
    [application EXCEPT
        !.status = IF app_update.status.present /\ app_update.status.value # <<>>
                   THEN app_update.status.value ELSE @,
        !.notes  = IF write_notes THEN app_update.notes ELSE @]

\* PUT /{app_id} of the application router: notes are written if not empty
UpdateApplication ==
    /\ request = NoRequest
    /\ \E user \in Users, app_id \in 1..MaxApplications, app_update \in ApplicationUpdates :
         LET application == { a \in db.applications : a.id = app_id /\ a.user_id = user }
             named == { <<"applications", app_id>> }
         IN  IF application = {}
             THEN /\ last_response' = Reply("update_application", user, 404, named, {})
                  /\ UNCHANGED db
             ELSE /\ db' = [db EXCEPT !.applications =
                              (@ \ application) \cup
                              { Updated(a, app_update,
                                        app_update.notes.present
                                        /\ app_update.notes.value # <<>>) : a \in application }]
                  /\ last_response' = Reply("update_application", user, 200, named, named)
    /\ UNCHANGED request
    /\ UNCHANGED czVars
    /\ UNCHANGED dbOthers

\* PUT /{application_id}/status of the tracker router: notes are written if
\* the request has any
UpdateApplicationStatus ==
    /\ request = NoRequest
    /\ \E user \in Users, application_id \in 1..MaxApplications,
          status_update \in ApplicationUpdates :
         LET application == { a \in db.applications :
                                 a.id = application_id /\ a.user_id = user }
             named == { <<"applications", application_id>> }
         IN  IF application = {}
             THEN /\ last_response' = Reply("update_application_status", user, 404, named, {})
                  /\ UNCHANGED db
             ELSE /\ db' = [db EXCEPT !.applications =
                              (@ \ application) \cup
                              { Updated(a, status_update, status_update.notes.present) :
                                   a \in application }]
                  /\ last_response' =
                        Reply("update_application_status", user, 200, named, named)
    /\ UNCHANGED request
    /\ UNCHANGED czVars
    /\ UNCHANGED dbOthers

\* DELETE /{app_id} of the application router; that of the tracker router
\* is the same code
DeleteApplication ==
    /\ request = NoRequest
    /\ \E user \in Users, app_id \in 1..MaxApplications :
         LET application == { a \in db.applications : a.id = app_id /\ a.user_id = user }
             named == { <<"applications", app_id>> }
         IN  IF application = {}
             THEN /\ last_response' = Reply("delete_application", user, 404, named, {})
                  /\ UNCHANGED db
             ELSE /\ db' = [db EXCEPT !.applications = @ \ application]
                  /\ last_response' = Reply("delete_application", user, 200, named, {})
    /\ UNCHANGED request
    /\ UNCHANGED czVars
    /\ UNCHANGED dbOthers

---------------------------------------------------------------------------
(* The states customizations start in, and the specifications.             *)

CzStart ==
    /\ cz_pc = "idle"
    /\ cz_i = 1
    /\ enhanced_projects = <<>>
    /\ enhanced_experience = <<>>
    /\ relevance_score = 0
    /\ missing_skills = <<>>
    /\ llm_calls = <<>>
    /\ cz_result = EmptyResult

\* Skill lists against required-skill lists and keywords: a resume without
\* projects or experience, a gateway without credentials.
CzInitSkills ==
    /\ \E sk \in DupFreeSeqs(ResumeSkillVocab), jd \in DupFreeSeqs(JdSkillVocab),
          k \in 0..Len(KeywordPool) :
         /\ resume_data = [skills |-> sk, projects |-> <<>>, experience |-> <<>>,
                           education |-> NoEducation, summary |-> NoneText]
         /\ job_description = [required_skills |-> jd,
                               priority_keywords |-> SubSeq(KeywordPool, 1, k)]
    /\ openai_api_key = KeyUnset
    /\ gemini_api_key = KeyUnset
    /\ CzStart

\* Long skill lists: the first n terms of the job analyzer's vocabulary are
\* required (n >= MinScaleRequired), the resume lists the first r terms of the
\* parser's vocabulary.
CzInitScale ==
    /\ \E n \in MinScaleRequired..Len(CommonSkills),
          r \in 0..Min(MaxScaleSkills, Len(SkillsKeywords)) :
         /\ resume_data = [skills |-> [i \in 1..r |-> Title(SkillsKeywords[i])],
                           projects |-> <<>>, experience |-> <<>>,
                           education |-> NoEducation, summary |-> NoneText]
         /\ job_description = [required_skills |-> [i \in 1..n |-> Title(CommonSkills[i])],
                               priority_keywords |-> <<>>]
    /\ openai_api_key = KeyUnset
    /\ gemini_api_key = KeyUnset
    /\ CzStart

\* Projects, experience and summary against required skills, under every key
\* configuration.
CzInitPipeline ==
    /\ \E jd \in DupFreeSeqs({ <<"P","y","t","h","o","n">>, <<"S","q","l">> }),
          pr \in SeqsUpTo(ProjectPool, MaxProjects),
          ex \in SeqsUpTo(ExperiencePool, MaxExperience),
          sm \in SummaryValues :
         /\ resume_data = [skills |-> << <<"P","y","t","h","o","n">>, <<"M","y","S","Q","L">> >>,
                           projects |-> pr, experience |-> ex,
                           education |-> NoEducation, summary |-> sm]
         /\ job_description = [required_skills |-> jd, priority_keywords |-> <<>>]
    /\ openai_api_key \in {KeyUnset, KeySet}
    /\ gemini_api_key \in {KeyUnset, KeySet}
    /\ CzStart

CzInit == CzInitSkills \/ CzInitScale \/ CzInitPipeline

KeysUnset == openai_api_key = KeyUnset /\ gemini_api_key = KeyUnset

\* A resume is uploaded.
PrInit ==
    /\ \E wc \in {12, 399, 400, 1000, 1001}, bp \in {0, 5, 6},
          em \in BOOLEAN, ph \in BOOLEAN, k \in 0..MaxParsedSkills,
          ed \in EducationMatches,
          ex \in SeqsUpTo(ExperiencePool, 1), pj \in SeqsUpTo(ProjectPool, 1) :
         upload_text = [word_count |-> wc, bullet_points |-> bp, has_email |-> em,
                        has_phone |-> ph,
                        skills |-> [i \in 1..k |-> Title(SkillsKeywords[i])],
                        education_match |-> ed,
                        experience |-> ex, projects |-> pj, summary |-> NoneText]
    /\ pr_pc = "uploaded"
    /\ parsed_data = NoParsedData
    /\ ats_again = NoAts

PrNext == ParseResume \/ ScoreAgain

\* The gateway alone.
GatewayInit == GwInit /\ CzIdle /\ PrIdle /\ SvcIdle /\ DbIdle

SpecGateway == GatewayInit /\ [][GwNext]_vars

\* Customizations of a parsed resume.
CustomizeInit == CzInit /\ GwIdle /\ PrIdle /\ SvcIdle /\ DbIdle

SpecCustomize == CustomizeInit /\ [][CzNext]_vars

\* Uploads.
ParseInit == PrInit /\ KeysUnset /\ GwIdle /\ CzIdle /\ SvcIdle /\ DbIdle

SpecParse == ParseInit /\ [][PrNext]_vars

\* Customizations and uploads: one behaviour is a customization or an upload.
\* A customization is requested while another resume is being uploaded.
ConcurrentInit ==
    /\ \E jd \in DupFreeSeqs({ <<"P","y","t","h","o","n">>, <<"S","q","l">> }),
          k \in 0..1 :
         /\ resume_data = [skills |-> << <<"P","y","t","h","o","n">> >>,
                           projects |-> <<>>, experience |-> <<>>,
                           education |-> NoEducation, summary |-> NoneText]
         /\ job_description = [required_skills |-> jd,
                               priority_keywords |-> SubSeq(KeywordPool, 1, k)]
    /\ KeysUnset
    /\ CzStart
    /\ GwIdle
    /\ \E bp \in {5, 6}, ed \in { m \in EducationMatches : m.degree.present },
          ex \in SeqsUpTo(ExperiencePool, 1), pj \in SeqsUpTo(ProjectPool, 1) :
         upload_text = [word_count |-> 400, bullet_points |-> bp, has_email |-> TRUE,
                        has_phone |-> TRUE,
                        skills |-> [i \in 1..MaxParsedSkills |-> Title(SkillsKeywords[i])],
                        education_match |-> ed,
                        experience |-> ex, projects |-> pj, summary |-> NoneText]
    /\ pr_pc = "uploaded"
    /\ parsed_data = NoParsedData
    /\ ats_again = NoAts
    /\ SvcIdle /\ DbIdle

ScoresInit == CustomizeInit \/ ParseInit \/ ConcurrentInit

ScoresNext == CzNext \/ PrNext

SpecScores == ScoresInit /\ [][ScoresNext]_vars

---------------------------------------------------------------------------
(* Calls of the answer, skill-gap and interview methods of AIService.      *)

\* Longest word limit a request asks for, and most fragments of a response.
MaxWordLimit == 3
MaxAnswerFragments == 3

\* Pieces of what the gateway answers; a response is some of them in a row.
AnswerFragments ==
    { <<"I"," ">>, <<"c","a","n"," "," ">>, <<"\n","d","o">>, <<"i","t","\t">> }

AnswerResponses ==
    { Join(q, <<>>) : q \in SeqsUpTo(AnswerFragments, MaxAnswerFragments) }
        \cup { NotConfiguredMsg }

\* word_limit of the request: absent, or an integer (the schema is Optional[int])
RequestedLimits ==
    { NoInt } \cup { [present |-> TRUE, value |-> n] : n \in (0 - 1)..MaxWordLimit }

AnswerInit ==
    /\ \E response \in AnswerResponses, requested \in RequestedLimits :
          svc_call = [op |-> "generate_application_answer",
                      response |-> response, word_limit |-> requested]
    /\ svc_pc = "called"
    /\ svc_ret = <<>>
    /\ KeysUnset /\ GwIdle /\ CzIdle /\ PrIdle /\ DbIdle

\* Most distinct skills the job descriptions of a gap analysis name.
MaxGapSkills == 22

\* Gap analyses: the first job description requires the first n terms of the
\* vocabulary, the second names the last t of them as tools, in upper case
\* where t = 2; and the two job descriptions that each require Python and AWS.
GapInit ==
    /\ \/ \E n \in 0..MaxGapSkills, t \in 0..2,
             user_skills \in { <<>>, << <<"p","y","t","h","o","n">> >>,
                               << <<"J","a","v","a">>, <<"A","W","S">> >> } :
            svc_call =
               [op |-> "analyze_skill_gaps",
                user_skills |-> user_skills,
                job_descriptions |->
                   << [required_skills |-> [i \in 1..n |-> Title(CommonSkills[i])],
                       tools_technologies |-> <<>>],
                      [required_skills |-> <<>>,
                       tools_technologies |->
                          [i \in 1..Min(t, n) |->
                              IF t = 2
                              THEN [c \in 1..Len(CommonSkills[n - Min(t, n) + i]) |->
                                       UpperChar(CommonSkills[n - Min(t, n) + i][c])]
                              ELSE Title(CommonSkills[n - Min(t, n) + i])]] >>,
                response |-> NotConfiguredMsg]
       \/ svc_call =
               [op |-> "analyze_skill_gaps",
                user_skills |-> << <<"p","y","t","h","o","n">> >>,
                job_descriptions |->
                   [j \in 1..2 |->
                       [required_skills |-> << <<"P","y","t","h","o","n">>, <<"A","W","S">> >>,
                        tools_technologies |-> <<>>]],
                response |-> NotConfiguredMsg]
    /\ svc_pc = "called"
    /\ svc_ret = <<>>
    /\ KeysUnset /\ GwIdle /\ CzIdle /\ PrIdle /\ DbIdle

\* Most lines of a response to an evaluation.
MaxEvalLines == 2

\* Responses to an evaluation: lines that follow the format asked for, lines
\* that do not, and the text the gateway answers without credentials.
EvalInit ==
    /\ LET EvalLines ==
              { <<"S","c","o","r","e",":"," ","8","/","1","0">>,
                <<"S","c","o","r","e",":"," ","7",".","5">>,
                <<"S","c","o","r","e",":"," ","h","i","g","h">>,
                <<" ","S","c","o","r","e",":"," ","3">>,
                <<"S","t","r","e","n","g","t","h","s",":"," ","c","l","e","a","r",
                  ","," ","c","o","n","c","i","s","e"," ">>,
                <<"W","e","a","k","n","e","s","s","e","s",":">>,
                <<"I","m","p","r","o","v","e","m","e","n","t"," ","S","u","g","g","e",
                  "s","t","i","o","n",":"," ","A","d","d"," ","m","e","t","r","i","c",
                  "s",":"," ","n","u","m","b","e","r","s">>,
                <<"G","r","e","a","t"," ","a","n","s","w","e","r">> }
           Texts == UNION { [1..n -> EvalLines] : n \in 0..MaxEvalLines }
       IN  \E response \in { Join(q, <<"\n">>) : q \in Texts } \cup { NotConfiguredMsg } :
              svc_call = [op |-> "evaluate_interview_answer", response |-> response]
    /\ svc_pc = "called"
    /\ svc_ret = <<>>
    /\ KeysUnset /\ GwIdle /\ CzIdle /\ PrIdle /\ DbIdle

AnswersInit == AnswerInit \/ GapInit \/ EvalInit

AnswersNext ==
    GenerateApplicationAnswer \/ AnalyzeSkillGaps \/ EvaluateInterviewAnswer

SpecAnswers == AnswersInit /\ [][AnswersNext]_vars

\* Texts of resumes and of job descriptions, of up to MaxTextLines lines:
\* with and without vocabulary terms, with and without a heading, with
\* phrases the emphasis patterns and the version patterns match.
MaxTextLines == 2

ExtractInit ==
    /\ LET ResumeLines ==
              { <<"S","k","i","l","l","s",":"," ","C","o","o","k","i","n","g",","," ","P","a","i","n","t","i","n","g">>,
                <<"s","k","i","l","l","s",":"," ","p","y","t","h","o","n",","," ","j","a","v","a">>,
                <<"P","y","t","h","o","n"," ","a","n","d"," ","S","Q","L">>,
                <<"J","a","n","e"," ","D","o","e">>,
                <<"S","K","I","L","L","S">>,
                <<"T","e","a","-","m","a","k","i","n","g"," ","|"," ","C","h","e","s","s">>,
                <<"M","y"," ","s","k","i","l","l","-","b","a","s","e","d"," ","p","l","a","n">>,
                <<>> }
           JobLines ==
              { <<"R","e","q","u","i","r","e","d",":"," ","P","y","t","h","o","n",","," ","S","Q","L"," ","a","n","d"," ","D","o","c","k","e","r">>,
                <<"m","u","s","t"," ","h","a","v","e"," ","s","q","l","."," ","m","u","s","t"," ","h","a","v","e"," ","s","q","l",".">>,
                <<"S","t","r","o","n","g"," ","e","x","p","e","r","i","e","n","c","e"," ","w","i","t","h"," ","p","y","t","h","o","n"," ","3",".","9">>,
                <<"R","e","a","c","t"," ","(","v","e","r","s","i","o","n"," ","1","8",")"," ","a","n","d"," ","K","u","b","e","r","n","e","t","e","s"," ","1">>,
                <<"E","s","s","e","n","t","i","a","l"," ","s","k","i","l","l","s"," ","a","n","d"," ","i","m","p","o","r","t","a","n","t"," ","t","r","a","i","t","s">>,
                <<"e","x","p","e","r","t"," ","i","n"," "," ",".">>,
                <<"W","e"," ","b","u","i","l","d"," ","t","h","i","n","g","s">>,
                <<>> }
           Texts(lines) ==
              { Join(q, <<"\n">>) : q \in UNION { [1..n -> lines] : n \in 0..MaxTextLines } }
       IN  \/ \E text \in Texts(ResumeLines) :
                 svc_call = [op |-> "extract_skills", text |-> text]
           \/ \E text \in Texts(JobLines) :
                 svc_call = [op |-> "analyze_job_description", text |-> text]
    /\ svc_pc = "called"
    /\ svc_ret = <<>>
    /\ KeysUnset /\ GwIdle /\ CzIdle /\ PrIdle /\ DbIdle

ExtractNext == ParseSkills \/ AnalyzeJobDescription

SpecExtract == ExtractInit /\ [][ExtractNext]_vars

\* Uploads, customizations and reads by two users, the first of whom has had
\* a job description analyzed; no credentials are configured.
UploadsInit ==
    /\ db = [EmptyDb EXCEPT
                !.job_descriptions =
                    { [id |-> 1, user_id |-> 1,
                       required_skills |-> << <<"P","y","t","h","o","n">>, <<"S","q","l">> >>,
                       priority_keywords |-> <<>>] },
                !.last_id.job_descriptions = 1]
    /\ request = NoRequest
    /\ last_response = NoResponse
    /\ files = {}
    /\ KeysUnset /\ GwIdle /\ CzIdle /\ PrIdle /\ SvcIdle

UploadsNext ==
    \/ UploadResume \/ GetResume \/ DeleteResume
    \/ CustomizeRequest \/ CzNext \/ SaveCustomized
    \/ GetCustomizedResume \/ DownloadCustomizedResume

SpecUploads == UploadsInit /\ [][UploadsNext]_vars

\* Requests of two users, each of whom has had a job description analyzed;
\* the first has uploaded a resume with skills, projects and experience.
\* No credentials are configured.
OwnershipInit ==
    /\ LET analyzed ==
              [EmptyDb EXCEPT
                  !.job_descriptions =
                      { [id |-> u, user_id |-> u,
                         required_skills |-> << <<"P","y","t","h","o","n">>, <<"S","q","l">> >>,
                         priority_keywords |-> <<>>] : u \in Users },
                  !.last_id.job_descriptions = 2]
           file == CHOOSE f \in UploadFiles : f.filename = <<"c","v",".","p","d","f">>
       IN  db = SaveUpload(analyzed, 1, ParseFile(file).value)
    /\ request = NoRequest
    /\ last_response = NoResponse
    /\ files = {}
    /\ KeysUnset /\ GwIdle /\ CzIdle /\ PrIdle /\ SvcIdle

OwnershipNext ==
    \/ GetResumes \/ GetResume \/ DeleteResume
    \/ CustomizeRequest \/ CzNext \/ SaveCustomized
    \/ GetCustomizedResume \/ GetCustomizedVersions \/ DownloadCustomizedResume
    \/ GetJobDescription \/ DeleteJobDescription
    \/ CreateApplication \/ TrackApplication
    \/ GetApplications \/ GetApplication
    \/ UpdateApplication \/ UpdateApplicationStatus \/ DeleteApplication

SpecOwnership == OwnershipInit /\ [][OwnershipNext]_vars

\* Customizations of one resume for one job description, by a user whose
\* OpenAI key is configured: the gateway returns what the provider answers
\* or, when the call fails, its error string, so that two customizations of
\* the same pair can differ.
FilesInit ==
    /\ LET analyzed ==
              [EmptyDb EXCEPT
                  !.job_descriptions =
                      { [id |-> 1, user_id |-> 1,
                         required_skills |-> << <<"P","y","t","h","o","n">>, <<"S","q","l">> >>,
                         priority_keywords |-> <<>>] },
                  !.last_id.job_descriptions = 1]
           file == CHOOSE f \in UploadFiles : f.filename = <<"c","v",".","p","d","f">>
       IN  db = SaveUpload(analyzed, 1, ParseFile(file).value)
    /\ request = NoRequest
    /\ last_response = NoResponse
    /\ files = {}
    /\ openai_api_key = KeySet
    /\ gemini_api_key = KeyUnset
    /\ GwIdle /\ CzIdle /\ PrIdle /\ SvcIdle

FilesNext ==
    \/ CustomizeRequest \/ CzNext \/ SaveCustomized
    \/ GetCustomizedResume \/ DownloadCustomizedResume

SpecFiles == FilesInit /\ [][FilesNext]_vars

\* Resume data handed to the generator: with and without a name, a summary,
\* skills, experience (with and without company and duration), projects
\* (with and without tech), and with the education dictionary empty, as
\* extract_education returns it when it finds nothing, partly and fully
\* filled.
RenderEducation ==
    { <<>>,
      [degree |-> NoneText, field |-> NoneText, institution |-> NoneText,
       year |-> NoneText],
      [degree |-> Some(<<"B",".","T","e","c","h">>), field |-> NoneText,
       institution |-> NoneText, year |-> Some(<<"2","0","2","0">>)],
      [degree |-> Some(<<"B",".","T","e","c","h">>), field |-> Some(<<"P","h","y","s","i","c","s">>),
       institution |-> Some(<<"I","I","T"," ","D","e","l","h","i">>), year |-> Some(<<"2","0","2","0">>)] }

RenderInit ==
    /\ \E op \in {"generate_pdf", "generate_docx"},
          name \in { NoneText, Some(<<"A","n","n"," ","L","e","e">>) },
          summary \in SummaryValues,
          skills \in { <<>>, << <<"P","y","t","h","o","n">>, <<"S","q","l">> >> },
          experience \in SeqsUpTo(ExperiencePool, 1),
          projects \in SeqsUpTo({ p \in ProjectPool : p.name.value \in { <<"S","h","o","p">>, <<"B","a","n","d">> } }, 1),
          education \in RenderEducation :
         svc_call = [op |-> op,
                     resume_data |-> [name |-> name, summary |-> summary,
                                      skills |-> skills, experience |-> experience,
                                      projects |-> projects, education |-> education],
                     output_filename |-> <<"c","u","s","t","o","m","i","z","e","d","_","1","_","1","_","1">>]
    /\ svc_pc = "called"
    /\ svc_ret = <<>>
    /\ KeysUnset /\ GwIdle /\ CzIdle /\ PrIdle /\ DbIdle

RenderNext == GeneratePdf \/ GenerateDocx

SpecRender == RenderInit /\ [][RenderNext]_vars

---------------------------------------------------------------------------
(* Claims about the gateway, checked under SpecGateway.                    *)

Configured == OpenAIClient(openai_api_key) \/ Truthy(gemini_api_key)

AllAttemptsFailed ==
    /\ attempts # <<>>
    /\ \A i \in 1..Len(attempts) : attempts[i].outcome.kind # "ok"

\* The error text of a failed attempt: str(e) of what was raised, or
\* "<status> - <body>" of a non-200 response; a 200 without candidates has none.
ErrorText(o) ==
    CASE o.kind = "status" -> IntToText(o.code) \o <<" ","-"," ">> \o o.text
      [] o.kind \in {"raise", "malformed"} -> o.text
      [] OTHER -> <<>>

\* C1: _get_llm_response never raises: for every key configuration and every
\* outcome of every provider attempt, no exception leaves the call, and a
\* finished call has returned a string.
C1_NeverRaises ==
    /\ gw_pc # "raised"
    /\ gw_pc = "done" => gw_result \in Seq(STRING)

\* C1 witness: a call with both keys set has returned after the OpenAI call
\* raised and the last Gemini attempt answered 200 with a malformed payload.
C1_Witness ==
    /\ gw_pc = "done"
    /\ Len(attempts) = 4
    /\ attempts[1].outcome.kind = "raise"
    /\ attempts[2].outcome.kind = "status"
    /\ attempts[3].outcome.kind = "empty"
    /\ attempts[4].outcome.kind = "malformed"

\* C2: whenever a credential is configured and every attempt of the call has
\* failed, the returned string contains the error text of the last failed
\* attempt.
C2_LastErrorReported ==
    (gw_pc = "done" /\ Configured /\ AllAttemptsFailed)
        => IsSubstr(ErrorText(attempts[Len(attempts)].outcome), gw_result)

\* C3: with neither key configured no OpenAI call and no HTTP POST is ever
\* issued, and every call returns the fixed "not configured" string.
C3_NotConfigured ==
    (~OpenAIClient(openai_api_key) /\ ~Truthy(gemini_api_key))
        => /\ attempts = <<>>
           /\ gw_pc \in {"idle", "done"}
           /\ gw_pc = "done" => gw_result = NotConfiguredMsg

\* C3 witness: the second call of a gateway without credentials has returned
\* (one key unset, the other set to the empty string).
C3_Witness ==
    /\ ~openai_api_key.present
    /\ gemini_api_key.present /\ gemini_api_key.value = <<>>
    /\ gw_calls = 2
    /\ gw_pc = "done"
    /\ gw_result = NotConfiguredMsg

---------------------------------------------------------------------------
(* Claims about customize_resume, checked under SpecCustomize.             *)

NoCredentials == ~OpenAIClient(openai_api_key) /\ ~Truthy(gemini_api_key)

\* A description mentions a required skill (case-insensitively).
MentionsRequired(description) ==
    \E j \in 1..Len(job_description.required_skills) :
        IsSubstr(Lower(job_description.required_skills[j]), Lower(description))

\* An entry as the claim expects it back from a gateway without credentials.
ExpectedEntry(entry) ==
    IF MentionsRequired(entry.description)
    THEN [entry EXCEPT !.description = NotConfiguredMsg]
    ELSE entry

IndexPermutations(n) == { f \in [1..n -> 1..n] : \A i, j \in 1..n : i # j => f[i] # f[j] }

\* C4: with no LLM credentials customize_resume never raises, and the result
\* it returns has the "not configured" string as summary and as description of
\* every project and experience entry that mentions a required skill, every
\* other entry unchanged (projects in some order, experience in input order).
C4_NoCredentialsCompletes ==
    NoCredentials =>
        /\ cz_pc # "raised"
        /\ cz_pc = "done" =>
            LET data == cz_result.customized_data
                n    == Len(resume_data.projects)
            IN  /\ data.summary = NotConfiguredMsg
                /\ Len(data.projects) = n
                /\ \E f \in IndexPermutations(n) :
                      \A i \in 1..n :
                          data.projects[f[i]] = ExpectedEntry(resume_data.projects[i])
                /\ Len(data.experience) = Len(resume_data.experience)
                /\ \A i \in 1..Len(resume_data.experience) :
                      data.experience[i] = ExpectedEntry(resume_data.experience[i])

\* C4 witness: a customization without credentials has returned for a resume
\* with a project that mentions a required skill, a project that mentions none
\* and an experience entry that mentions one.
C4_Witness ==
    /\ NoCredentials
    /\ cz_pc = "done"
    /\ \E i, j \in 1..Len(resume_data.projects) :
          /\ MentionsRequired(resume_data.projects[i].description)
          /\ ~MentionsRequired(resume_data.projects[j].description)
    /\ \E i \in 1..Len(resume_data.experience) :
          /\ MentionsRequired(resume_data.experience[i].description)
          /\ cz_result.customized_data.experience[i].description = NotConfiguredMsg

\* C5: the relevance score customize_resume computes and returns, and the
\* score calculate_ats_score returns for a parsed resume, are integers
\* between 0 and 100.
C5_ScoresInRange ==
    /\ cz_pc # "idle" => relevance_score \in 0..100
    /\ cz_pc = "done" => cz_result.relevance_score \in 0..100
    /\ pr_pc \in {"parsed", "rescored"} => parsed_data.ats_score \in 0..100
    /\ pr_pc = "rescored" => ats_again.score \in 0..100

\* C5 witness: a customization whose skill percentage is 100 and whose keyword
\* bonus is positive has returned 100, and an upload with every component at
\* its maximum has been scored 100.
C5_Witness ==
    /\ cz_pc = "done"
    /\ MatchingSkills(resume_data.skills, job_description.required_skills)
          = Len(job_description.required_skills)
    /\ job_description.required_skills # <<>>
    /\ KeywordMatches(resume_data.skills, job_description.priority_keywords) > 0
    /\ cz_result.relevance_score = 100
    /\ pr_pc = "parsed"
    /\ parsed_data.ats_score = 100

\* C6: when the job description has no required skills the relevance score is
\* exactly 50, whatever the resume skills, the projects and the priority
\* keywords are.
C6_EmptyRequiredGives50 ==
    job_description.required_skills = <<>> =>
        /\ cz_pc # "idle" => relevance_score = 50
        /\ cz_pc = "done" => cz_result.relevance_score = 50

\* C6 witness: a customization against a job description without required
\* skills has returned, with a priority keyword found in a resume skill.
C6_Witness ==
    /\ cz_pc = "done"
    /\ job_description.required_skills = <<>>
    /\ KeywordMatches(resume_data.skills, job_description.priority_keywords) > 0
    /\ cz_result.relevance_score = 50

\* C7: with n >= 1 required skills the relevance score is
\* min(floor(100*m/n) + min(5*k, 20), 100), m the required skills that match a
\* resume skill in either direction, k the priority keywords found in a resume
\* skill.
C7_RelevanceFormula ==
    (cz_pc # "idle" /\ job_description.required_skills # <<>>) =>
        LET n == Len(job_description.required_skills)
            m == MatchingSkills(resume_data.skills, job_description.required_skills)
            k == KeywordMatches(resume_data.skills, job_description.priority_keywords)
        IN  relevance_score = Min(((100 * m) \div n) + Min(5 * k, 20), 100)

\* C10: _reorder_skills is a stable partition: its output has the elements of
\* the input with their multiplicities, no skill that matches no required
\* skill comes before one that matches, and each of the two groups keeps its
\* input order.
C10_StablePartition ==
    cz_pc = "done" =>
        LET input  == resume_data.skills
            output == cz_result.customized_data.skills
            jd_skills_lower == LowerAll(job_description.required_skills)
            Relevant(skill) == SkillIsRelevant(skill, jd_skills_lower)
            Other(skill)    == ~SkillIsRelevant(skill, jd_skills_lower)
            Count(q, x)     == Cardinality({ i \in 1..Len(q) : q[i] = x })
        IN  /\ Len(output) = Len(input)
            /\ \A i \in 1..Len(input) : Count(output, input[i]) = Count(input, input[i])
            /\ \A i, j \in 1..Len(output) :
                  (i < j /\ Relevant(output[j])) => Relevant(output[i]) \/ i = j
            /\ SelectSeq(output, Relevant) = SelectSeq(input, Relevant)
            /\ SelectSeq(output, Other) = SelectSeq(input, Other)

\* C10 witness: a returned customization moved two matching skills, in their
\* input order, ahead of a skill that matches nothing and stood first.
C10_Witness ==
    /\ cz_pc = "done"
    /\ LET input  == resume_data.skills
           output == cz_result.customized_data.skills
           jd_skills_lower == LowerAll(job_description.required_skills)
       IN  /\ Len(input) >= 3
           /\ ~SkillIsRelevant(input[1], jd_skills_lower)
           /\ SkillIsRelevant(input[2], jd_skills_lower)
           /\ SkillIsRelevant(input[3], jd_skills_lower)
           /\ output[1] = input[2]
           /\ output[2] = input[3]

\* C12: the missing skills of a customization are the required skills, in
\* job-description order, that equal no resume skill when both are
\* lower-cased; missing_skills_note is their first 3 and
\* changes_made.missing_skills their first 5, so the note is a prefix of the
\* log entry.
C12_MissingSkills ==
    cz_pc = "done" =>
        LET required == job_description.required_skills
            NoExactMatch(skill) ==
                \A i \in 1..Len(resume_data.skills) :
                    Lower(resume_data.skills[i]) # Lower(skill)
            missing == SelectSeq(required, NoExactMatch)
            note    == cz_result.customized_data.missing_skills_note
            logged  == cz_result.changes_made.missing_skills
        IN  /\ note = SubSeq(missing, 1, Min(3, Len(missing)))
            /\ logged = SubSeq(missing, 1, Min(5, Len(missing)))
            /\ Len(note) <= 3
            /\ Len(logged) <= 5
            /\ note = SubSeq(logged, 1, Len(note))

\* C12 witness: a returned customization with more than five missing skills,
\* one of them a required skill that a resume skill merely contains.
C12_Witness ==
    /\ cz_pc = "done"
    /\ Len(missing_skills) > 5
    /\ Len(cz_result.customized_data.missing_skills_note) = 3
    /\ Len(cz_result.changes_made.missing_skills) = 5
    /\ \E i \in 1..Len(missing_skills) :
          SkillMatches(Lower(missing_skills[i]), LowerAll(resume_data.skills))

---------------------------------------------------------------------------
(* Claims about the parser, checked under SpecParse.                       *)

Parsed == pr_pc \in {"parsed", "rescored"}

\* What the text holds for a section: the skills, experience entries or
\* projects extracted, or an education span with a degree, institution or year.
Found(key) ==
    IF key = "education"
    THEN /\ upload_text.education_match.matched
         /\ \/ upload_text.education_match.degree.present
            \/ upload_text.education_match.institution.present
            \/ upload_text.education_match.year.present
    ELSE upload_text[key] # <<>>

SectionKeys == {"skills", "education", "experience", "projects"}

\* The components of the score other than the sections.
LengthPoints == IF 400 <= upload_text.word_count /\ upload_text.word_count <= 1000
                THEN 10 ELSE 5

ContactPoints == (IF upload_text.has_email THEN 5 ELSE 0)
                    + (IF upload_text.has_phone THEN 5 ELSE 0)

SkillPoints == IF Len(upload_text.skills) >= 5 THEN 20
               ELSE IF Len(upload_text.skills) >= 1 THEN 10 ELSE 0

BulletPoints == IF upload_text.bullet_points > 5 THEN 20 ELSE 10

\* C8: the ATS score is the sum of the length, section, contact, skill and
\* bullet components, 10 per section with content; scoring the same inputs
\* again gives the same score and the same issues.
C8_AtsSum ==
    /\ Parsed =>
          parsed_data.ats_score =
              LengthPoints + 10 * Cardinality({ key \in SectionKeys : Found(key) })
                + ContactPoints + SkillPoints + BulletPoints
    /\ pr_pc = "rescored" =>
          /\ ats_again.score = parsed_data.ats_score
          /\ ats_again.analysis.issues = parsed_data.ats_analysis.issues

\* C9: a section the text holds nothing for is scored as absent: its
\* section_presence is false, the issue "Missing section: <Title>" is
\* recorded, and the score has no 10 points for it.
C9_AbsentSectionDeducted ==
    Parsed =>
        /\ \A i \in 1..Len(Sections) :
              ~Found(Sections[i].key) =>
                 /\ ~parsed_data.ats_analysis.section_presence[Sections[i].key]
                 /\ \E n \in 1..Len(parsed_data.ats_analysis.issues) :
                       parsed_data.ats_analysis.issues[n]
                          = MsgMissingSection \o Title(Sections[i].name)
        /\ parsed_data.ats_score <=
              LengthPoints + ContactPoints + SkillPoints + BulletPoints
                + 10 * Cardinality({ key \in SectionKeys : Found(key) })

---------------------------------------------------------------------------
(* Claims about the answer, skill-gap and interview methods, checked under *)
(* SpecAnswers.                                                            *)

AnswerReturned ==
    svc_pc = "returned" /\ svc_call.op = "generate_application_answer"

\* C11: the answer generate_application_answer returns has at most
\* word_limit words; a response of more than word_limit words comes back as
\* its first word_limit words and "...", any other response unchanged.
C11_AnswerWithinLimit ==
    AnswerReturned =>
        LET word_limit == RouterWordLimit(svc_call.word_limit)
            words      == SplitWords(svc_call.response)
        IN  /\ Len(SplitWords(svc_ret)) <= word_limit
            /\ Len(words) > word_limit =>
                  svc_ret = Join(SubSeq(words, 1, word_limit), <<" ">>) \o Ellipsis
            /\ Len(words) <= word_limit => svc_ret = svc_call.response

\* C13: analyze_skill_gaps returns as missing_skills the 20 most frequent
\* skills of the job descriptions (lower-cased, required skills and tools
\* together) without those the user has, by falling frequency, and as
\* recommended_skills the first 10 of that list.
C13_SkillGaps ==
    (svc_pc = "returned" /\ svc_call.op = "analyze_skill_gaps") =>
        LET jds     == svc_call.job_descriptions
            named   == LowerAll(Join([j \in 1..Len(jds) |->
                          jds[j].required_skills \o jds[j].tools_technologies], <<>>))
            users   == { Lower(svc_call.user_skills[i]) : i \in 1..Len(svc_call.user_skills) }
            top     == MostCommon(named, 20)
            Wanted(entry) == entry.skill \notin users
            wanted  == SelectSeq(top, Wanted)
            Freq(x) == Cardinality({ i \in 1..Len(named) : named[i] = x })
            missing == svc_ret.missing_skills
        IN  /\ missing = [k \in 1..Len(wanted) |-> wanted[k].skill]
            /\ \A i, j \in 1..Len(missing) : i < j => Freq(missing[i]) >= Freq(missing[j])
            /\ svc_ret.recommended_skills = SubSeq(missing, 1, Min(10, Len(missing)))

EvaluationDone ==
    svc_call.op = "evaluate_interview_answer" /\ svc_pc # "called"

\* C14: evaluate_interview_answer never raises; the feedback of the record it
\* returns is the response as it came, and for a response none of whose lines
\* starts a field the score is 0, strengths and weaknesses are empty lists
\* and the suggestion is empty.
C14_EvaluationNeverRaises ==
    EvaluationDone =>
        /\ svc_pc = "returned"
        /\ svc_ret.feedback = svc_call.response
        /\ (LET lines == SplitOn(svc_call.response, "\n")
            IN  \A k \in 1..Len(lines) :
                   \A field \in { <<"S","c","o","r","e",":">>,
                                  <<"S","t","r","e","n","g","t","h","s",":">>,
                                  <<"W","e","a","k","n","e","s","s","e","s",":">>,
                                  <<"I","m","p","r","o","v","e","m","e","n","t"," ",
                                    "S","u","g","g","e","s","t","i","o","n",":">> } :
                      ~StartsWith(lines[k], field))
              => /\ svc_ret.score = 0
                 /\ svc_ret.strengths = <<>>
                 /\ svc_ret.weaknesses = <<>>
                 /\ svc_ret.suggestion = <<>>

\* A response whose score line holds no number and was followed by another
\* line: the failure was swallowed and the record returned.
C14_Witness ==
    /\ EvaluationDone
    /\ svc_pc = "returned"
    /\ StartsWith(svc_call.response, <<"S","c","o","r","e",":"," ","h","i","g","h","\n">>)
    /\ svc_ret.score = 0
    /\ svc_ret.feedback = svc_call.response

---------------------------------------------------------------------------
(* Claims about uploads and customizations, checked under SpecUploads.     *)

\* C15: no request changes the parsed_data, ats_score or ats_analysis of a
\* Resume row that exists; an upload that succeeds adds one Resume row under
\* a new id and leaves the others; and while customize_resume runs, its
\* resume_data stays what it was and the skills, projects and experience of
\* the resume it was called for stay those of the row.
C15_ResumesImmutable ==
    [][ /\ \A r \in db.resumes : \A after \in db'.resumes :
              after.id = r.id =>
                 /\ after.parsed_data = r.parsed_data
                 /\ after.ats_score = r.ats_score
                 /\ after.ats_analysis = r.ats_analysis
        /\ (last_response'.op = "upload_resume" /\ last_response'.status = 200) =>
              \E new \in db'.resumes :
                 /\ db'.resumes = db.resumes \cup { new }
                 /\ \A r \in db.resumes : r.id # new.id
        /\ (request.op = "customize_resume" /\ cz_pc' # "off") =>
              /\ resume_data' = resume_data
              /\ \E r \in db'.resumes :
                    /\ r.id = request.resume_id
                    /\ r.parsed_data.skills = resume_data.skills
                    /\ r.parsed_data.projects = resume_data.projects
                    /\ r.parsed_data.experience = resume_data.experience
      ]_vars

\* A resume was customized (skills and projects came out in another order),
\* its user uploaded a further resume, and the customized resume was
\* downloaded.
C15_Witness ==
    /\ last_response.op = "download_customized_resume"
    /\ last_response.status = 200
    /\ \E r \in db.resumes, c \in db.customized_resumes, later \in db.resumes :
          /\ c.original_resume_id = r.id
          /\ c.customized_data.skills # r.parsed_data.skills
          /\ c.customized_data.projects # r.parsed_data.projects
          /\ later.id > r.id
          /\ later.user_id = r.user_id
          /\ later.parsed_data # r.parsed_data

\* C16: a file whose extension is none of .pdf, .docx and .doc, or whose
\* document cannot be read, makes parse_resume raise; the upload parses at
\* most once, is answered with an error, adds no Resume row and leaves the
\* profiles as they were.
C16_ExtractionFailureReported ==
    [][ LET file == last_response'.file
        IN  (/\ last_response'.op = "upload_resume"
             /\ \/ ~file.readable
                \/ Lower(Suffix(file.filename)) \notin
                      { <<".","p","d","f">>, <<".","d","o","c","x">>, <<".","d","o","c">> })
            => /\ last_response'.parse_calls <= 1
               /\ last_response'.status >= 400
               /\ db'.resumes = db.resumes
               /\ db'.user_profiles = db.user_profiles
               /\ ParseFile(file).raised
      ]_vars

\* A user with a resume and a profile uploaded a .doc that cannot be read:
\* parse_resume was called once and the request answered 500.
C16_Witness ==
    /\ last_response.op = "upload_resume"
    /\ last_response.file = [filename |-> <<"c","v",".","d","o","c">>, readable |-> FALSE]
    /\ last_response.parse_calls = 1
    /\ last_response.status = 500
    /\ \E r \in db.resumes : r.user_id = last_response.user
    /\ \E p \in db.user_profiles :
          p.user_id = last_response.user /\ p.technical_skills # {}

---------------------------------------------------------------------------
(* Claims about the extraction of skills, keywords and tools, checked      *)
(* under SpecExtract.                                                      *)
---------------------------------------------------------------------------

SkillsParsed == svc_pc = "returned" /\ svc_call.op = "extract_skills"

JobAnalyzed == svc_pc = "returned" /\ svc_call.op = "analyze_job_description"

\* C17: for a resume text that contains none of the terms of skills_keywords
\* as a substring, extract_skills returns an empty collection and the skills
\* component of the ATS score is 0.
C17_NoVocabularyNoSkills ==
    (/\ SkillsParsed
     /\ \A k \in 1..Len(SkillsKeywords) :
           ~IsSubstr(SkillsKeywords[k], Lower(svc_call.text)))
    => svc_ret.skills = {} /\ svc_ret.skills_points = 0

\* Two entries of a collection that are equal when compared ignoring case
CaseDuplicates(entries) ==
    \E a, b \in entries : a # b /\ Lower(a) = Lower(b)

\* C18: no collection of skills or tools that extraction produces
\* (extract_skills, extract_required_skills, extract_tools_technologies)
\* contains two entries that are equal when compared ignoring case.
C18_CaseInsensitiveDedup ==
    /\ SkillsParsed => ~CaseDuplicates(svc_ret.skills)
    /\ JobAnalyzed => /\ ~CaseDuplicates(svc_ret.required_skills)
                      /\ ~CaseDuplicates(svc_ret.tools_technologies)

\* C19: extract_priority_keywords returns at most 20 keywords, pairwise
\* distinct, each longer than 3 characters, in the order in which their
\* first matches were found (pattern by pattern, match by match).
C19_PriorityKeywords ==
    JobAnalyzed =>
        LET keywords == svc_ret.priority_keywords
        IN  /\ Len(keywords) <= 20
            /\ \A i, j \in 1..Len(keywords) : i # j => keywords[i] # keywords[j]
            /\ \A i \in 1..Len(keywords) : Len(keywords[i]) > 3

---------------------------------------------------------------------------
(* Claims about the requests of several users, checked under SpecOwnership. *)
---------------------------------------------------------------------------

\* The row `id` of `table` belongs to a user other than `user`
Foreign(d, table, id, user) == Owner(d, table, id) \notin {0, user}

\* C20: every request touches only records of the requesting user: a request
\* that names the id of a record of another user is answered 404, the body
\* of a response holds no record of another user, no record of another user
\* is changed or deleted, and no row the request adds refers to a record of
\* another user.
C20_OwnerScoped ==
    [][ last_response' # NoResponse =>
          LET r == last_response'
              Tables == {"resumes", "job_descriptions", "customized_resumes", "applications"}
          IN  /\ \A n \in r.named : Foreign(db, n[1], n[2], r.user) => r.status = 404
              /\ \A b \in r.body : ~Foreign(db', b[1], b[2], r.user)
              /\ \A t \in Tables : \A row \in db[t] :
                    Foreign(db, t, row.id, r.user) => row \in db'[t]
              /\ \A a \in db'.applications \ db.applications :
                    /\ ~Foreign(db', "job_descriptions", a.job_description_id, r.user)
                    /\ ~Foreign(db', "customized_resumes", a.customized_resume_id, r.user)
              /\ \A c \in db'.customized_resumes \ db.customized_resumes :
                    /\ ~Foreign(db', "resumes", c.original_resume_id, r.user)
                    /\ ~Foreign(db', "job_descriptions", c.job_description_id, r.user)
      ]_vars

---------------------------------------------------------------------------
(* Claims about the gateway calls and the entries of a customization,      *)
(* checked under SpecCustomize.                                            *)
---------------------------------------------------------------------------

\* The rewrite calls the entries of a list ask for: one for each entry whose
\* description mentions a required skill, in the order of the list.
RewriteCalls(kind, entries) ==
    LET relevant == { i \in 1..Len(entries) : MentionsRequired(entries[i].description) }
        Nth(k) == CHOOSE i \in relevant : Cardinality({ j \in relevant : j < i }) = k - 1
    IN  [k \in 1..Cardinality(relevant) |->
            [kind |-> kind, entry |-> Nth(k), original |-> entries[Nth(k)].description]]

\* The calls made so far without the strings they returned.
IssuedCalls ==
    [k \in 1..Len(llm_calls) |->
        [kind |-> llm_calls[k].kind, entry |-> llm_calls[k].entry,
         original |-> llm_calls[k].original]]

\* C22: one customize_resume call makes exactly P + E + 1 gateway calls, P
\* the number of projects and E the number of experience entries whose
\* description contains a required skill: the project rewrites in input
\* order, then the experience rewrites in input order, then the one summary
\* call; a prompt that was sent before is sent again.
C22_GatewayCalls ==
    LET rewrites == RewriteCalls("project", resume_data.projects)
                       \o RewriteCalls("experience", resume_data.experience)
        P == Cardinality({ i \in 1..Len(resume_data.projects) :
                 RelevanceCount(resume_data.projects[i].description,
                                job_description.required_skills) > 0 })
        E == Cardinality({ i \in 1..Len(resume_data.experience) :
                 RelevanceCount(resume_data.experience[i].description,
                                job_description.required_skills) > 0 })
    IN  /\ cz_pc \in {"projects", "experience", "summary"} =>
              /\ Len(llm_calls) <= Len(rewrites)
              /\ IssuedCalls = SubSeq(rewrites, 1, Len(llm_calls))
        /\ cz_pc = "summary" => IssuedCalls = rewrites
        /\ cz_pc = "done" =>
              /\ Len(llm_calls) = P + E + 1
              /\ SubSeq(IssuedCalls, 1, P + E) = rewrites
              /\ llm_calls[P + E + 1].kind \in {"enhance_summary", "write_summary"}

\* C22 witness: a customization has returned after four calls, the first
\* two of them rewrites of two projects with the same description.
C22_Witness ==
    /\ cz_pc = "done"
    /\ Len(llm_calls) = 4
    /\ llm_calls[1].kind = "project" /\ llm_calls[2].kind = "project"
    /\ llm_calls[1].original = llm_calls[2].original
    /\ llm_calls[3].kind = "experience"

---------------------------------------------------------------------------
(* Claims about the order of the provider attempts, checked under          *)
(* SpecGateway.                                                            *)
---------------------------------------------------------------------------

\* The providers a call may turn to, in order: OpenAI if its key is
\* configured, then the three Gemini models if the Gemini key is.
ProviderOrder ==
    (IF OpenAIClient(openai_api_key) THEN <<"openai">> ELSE <<>>)
        \o (IF Truthy(gemini_api_key) THEN ModelsToTry ELSE <<>>)

\* C23: within one _get_llm_response call the attempts are made in the
\* order OpenAI (if its key is configured), gemini-1.5-flash, gemini-pro,
\* gemini-3-flash-preview (if the Gemini key is configured), each at most
\* once and so at most four; an attempt is made only after every earlier one
\* failed, and the text of the first attempt that succeeds is returned, no
\* attempt following it.
C23_AttemptOrder ==
    LET n == Len(attempts)
    IN  /\ n <= 4
        /\ n <= Len(ProviderOrder)
        /\ \A i \in 1..n : attempts[i].provider = ProviderOrder[i]
        /\ \A i \in 1..(n - 1) : attempts[i].outcome.kind # "ok"
        /\ (n > 0 /\ attempts[n].outcome.kind = "ok") =>
              /\ gw_pc \in {"done", "idle"}
              /\ gw_result = Strip(attempts[n].outcome.text)
        /\ (gw_pc = "done" /\ \A i \in 1..n : attempts[i].outcome.kind # "ok") =>
              /\ n = Len(ProviderOrder)
              /\ gw_result \in { NotConfiguredMsg, AllFailedMsg(last_error) }

\* C23 witness: a call has returned the text of its fourth attempt, after
\* OpenAI raised, one Gemini model answered with a status other than 200 and
\* one answered 200 without candidates.
C23_Witness ==
    /\ gw_pc = "done"
    /\ Len(attempts) = 4
    /\ attempts[1].provider = "openai" /\ attempts[1].outcome.kind = "raise"
    /\ attempts[2].outcome.kind = "status"
    /\ attempts[3].outcome.kind = "empty"
    /\ attempts[4].provider = "gemini-3-flash-preview"
    /\ attempts[4].outcome.kind = "ok"
    /\ gw_result = Strip(attempts[4].outcome.text)
    /\ gw_result # attempts[4].outcome.text

---------------------------------------------------------------------------
(* Claims about the rewritten entries and the record of changes, checked   *)
(* under SpecCustomize.                                                    *)

\* The calls made so far to rewrite entry i of a list
CallsFor(kind, i) ==
    { k \in 1..Len(llm_calls) : llm_calls[k].kind = kind /\ llm_calls[k].entry = i }

\* Entry i of a list as it is to come back: with the string the gateway
\* returned for it as description if its description mentions a required
\* skill, else as it was.
Rewritten(kind, entries, i) ==
    IF MentionsRequired(entries[i].description) /\ CallsFor(kind, i) # {}
    THEN [entries[i] EXCEPT
             !.description = llm_calls[CHOOSE k \in CallsFor(kind, i) : TRUE].returned]
    ELSE entries[i]

\* One call for each entry that mentions a required skill, none for another.
CalledIfRelevant(kind, entries, done) ==
    \A i \in 1..done :
        Cardinality(CallsFor(kind, i)) =
            IF MentionsRequired(entries[i].description) THEN 1 ELSE 0

\* C24: _enhance_projects replaces the description of a project if and only
\* if a required skill is a case-insensitive substring of the original
\* description; the new description is the string the gateway returned, as
\* it is, and the name and the tech of the project stay as they were.
C24_ProjectRewrite ==
    LET projects == resume_data.projects
        n == Len(projects)
    IN  /\ cz_pc = "projects" =>
              /\ Len(enhanced_projects) = cz_i - 1
              /\ CalledIfRelevant("project", projects, cz_i - 1)
              /\ \A i \in 1..(cz_i - 1) :
                    enhanced_projects[i] = Rewritten("project", projects, i)
        /\ cz_pc \in {"experience", "summary", "done"} =>
              /\ Len(enhanced_projects) = n
              /\ CalledIfRelevant("project", projects, n)
              /\ \E f \in IndexPermutations(n) :
                    \A i \in 1..n :
                        enhanced_projects[f[i]] = Rewritten("project", projects, i)
        /\ cz_pc = "done" =>
              cz_result.customized_data.projects = enhanced_projects

\* C24 witness: a customization has returned a project whose description is
\* the error string of the gateway, its name and tech as before, and a
\* project that mentions no required skill, as it was.
C24_Witness ==
    /\ cz_pc = "done"
    /\ Len(resume_data.projects) = 2
    /\ LET out == cz_result.customized_data.projects
       IN  \E i, j, k, l \in 1..2 :
              /\ MentionsRequired(resume_data.projects[i].description)
              /\ out[k].name = resume_data.projects[i].name
              /\ out[k].tech = resume_data.projects[i].tech
              /\ Len(out[k].description) > Len(AllFailedPrefix)
              /\ SubSeq(out[k].description, 1, Len(AllFailedPrefix)) = AllFailedPrefix
              /\ ~MentionsRequired(resume_data.projects[j].description)
              /\ out[l] = resume_data.projects[j]

\* The relevance count of a description as it stands: the number of required
\* skills that are case-insensitive substrings of it.
CountNow(description) ==
    Cardinality({ j \in 1..Len(job_description.required_skills) :
                    IsSubstr(Lower(job_description.required_skills[j]), Lower(description)) })

\* C25: the list _enhance_projects returns is a permutation of the input
\* projects (as rewritten), in order of non-increasing relevance count, the
\* count taken on the description after the rewrite; projects of equal
\* count keep their input order.
C25_ProjectOrder ==
    cz_pc \in {"experience", "summary", "done"} =>
        LET projects == resume_data.projects
            n == Len(projects)
            After(i) == CountNow(Rewritten("project", projects, i).description)
        IN  /\ Len(enhanced_projects) = n
            /\ \A k, l \in 1..n :
                  k < l => CountNow(enhanced_projects[k].description)
                              >= CountNow(enhanced_projects[l].description)
            /\ \E f \in IndexPermutations(n) :
                  /\ \A i \in 1..n :
                        enhanced_projects[f[i]] = Rewritten("project", projects, i)
                  /\ \A i, j \in 1..n :
                        (i < j /\ After(i) >= After(j)) => f[i] < f[j]
            /\ cz_pc = "done" => cz_result.customized_data.projects = enhanced_projects

\* C25 witness: a customization has returned two projects in the reverse of
\* their input order: the first mentioned more required skills than the
\* second before the rewrite and fewer after it.
C25_Witness ==
    /\ cz_pc = "done"
    /\ Len(resume_data.projects) = 2
    /\ LET projects == resume_data.projects
           out == cz_result.customized_data.projects
       IN  /\ CountNow(projects[1].description) > CountNow(projects[2].description)
           /\ out[1] = Rewritten("project", projects, 2)
           /\ out[2] = Rewritten("project", projects, 1)
           /\ CountNow(out[1].description) > CountNow(out[2].description)

\* C26: the list _enhance_experience returns has the length and the order
\* of the input; the description of an entry is replaced by the string the
\* gateway returned if and only if a required skill is a case-insensitive
\* substring of the original description, and company, role and duration
\* stay as they were.
C26_ExperienceRewrite ==
    LET experience == resume_data.experience
        n == Len(experience)
        Kept(i) ==
            /\ enhanced_experience[i].company = experience[i].company
            /\ enhanced_experience[i].role = experience[i].role
            /\ enhanced_experience[i].duration = experience[i].duration
            /\ enhanced_experience[i] = Rewritten("experience", experience, i)
    IN  /\ cz_pc = "experience" =>
              /\ Len(enhanced_experience) = cz_i - 1
              /\ CalledIfRelevant("experience", experience, cz_i - 1)
              /\ \A i \in 1..(cz_i - 1) : Kept(i)
        /\ cz_pc \in {"summary", "done"} =>
              /\ Len(enhanced_experience) = n
              /\ CalledIfRelevant("experience", experience, n)
              /\ \A i \in 1..n : Kept(i)
        /\ cz_pc = "done" =>
              cz_result.customized_data.experience = enhanced_experience

\* C26 witness: a customization has returned two experience entries in
\* their input order, the first as it was, the second with the string of
\* the gateway as description and its company, role and duration as before.
C26_Witness ==
    /\ cz_pc = "done"
    /\ Len(resume_data.experience) = 2
    /\ LET experience == resume_data.experience
           out == cz_result.customized_data.experience
       IN  /\ ~MentionsRequired(experience[1].description)
           /\ out[1] = experience[1]
           /\ MentionsRequired(experience[2].description)
           /\ out[2].description # experience[2].description
           /\ out[2].description = llm_calls[Len(llm_calls) - 1].returned
           /\ out[2].company = experience[2].company
           /\ out[2].role = experience[2].role
           /\ out[2].duration = experience[2].duration

\* C28: the changes_made record of a returned customization counts every
\* project and every experience entry of the resume, rewritten or not, and
\* has skills_reordered true whatever the reordering did to the skill list.
C28_ChangesMade ==
    cz_pc = "done" =>
        /\ cz_result.changes_made.projects_enhanced = Len(resume_data.projects)
        /\ cz_result.changes_made.experience_enhanced = Len(resume_data.experience)
        /\ cz_result.changes_made.skills_reordered = TRUE

\* C28 witness: a customization has returned for a resume with projects and
\* experience of which no description was rewritten and whose skill list
\* came back as it was, and the record still counts them all and says the
\* skills were reordered.
C28_Witness ==
    /\ cz_pc = "done"
    /\ Len(resume_data.projects) >= 1
    /\ Len(resume_data.experience) >= 1
    /\ \A k \in 1..Len(llm_calls) : llm_calls[k].kind \notin {"project", "experience"}
    /\ cz_result.customized_data.projects = resume_data.projects
    /\ cz_result.customized_data.experience = resume_data.experience
    /\ cz_result.customized_data.skills = resume_data.skills
    /\ cz_result.changes_made.projects_enhanced = Len(resume_data.projects)
    /\ cz_result.changes_made.experience_enhanced = Len(resume_data.experience)
    /\ cz_result.changes_made.skills_reordered

---------------------------------------------------------------------------
(* Claims about the fields of an evaluation, checked under SpecAnswers.    *)

\* C27: evaluate_interview_answer fails closed per field: every field
\* (score, strengths, weaknesses, suggestion) that has a well-formed line in
\* the response holds the value parsed from the last such line, wherever
\* the line stands and whatever the other lines hold; a line that cannot be
\* parsed leaves only its own field at the default.
C27_FailClosedPerField ==
    (svc_call.op = "evaluate_interview_answer" /\ svc_pc = "returned") =>
        LET lines == SplitOn(svc_call.response, "\n")
            Alone(k) == EvaluationScan(lines[k])
            WellFormed(prefix) ==
                { k \in 1..Len(lines) : StartsWith(lines[k], prefix) /\ ~Alone(k).raised }
            Last(prefix) ==
                CHOOSE k \in WellFormed(prefix) : \A j \in WellFormed(prefix) : j <= k
            FieldParsed(prefix, field) ==
                WellFormed(prefix) # {} =>
                    svc_ret[field] = Alone(Last(prefix)).result[field]
        IN  /\ FieldParsed(<<"S","c","o","r","e",":">>, "score")
            /\ FieldParsed(<<"S","t","r","e","n","g","t","h","s",":">>, "strengths")
            /\ FieldParsed(<<"W","e","a","k","n","e","s","s","e","s",":">>, "weaknesses")
            /\ FieldParsed(<<"I","m","p","r","o","v","e","m","e","n","t"," ",
                        "S","u","g","g","e","s","t","i","o","n",":">>, "suggestion")

---------------------------------------------------------------------------
(* Claims about the profile of the uploader, checked under SpecUploads.    *)

\* The profile of a user in the tables d; one without entries if there is
\* no row.
ProfileOf(d, user) ==
    IF \E p \in d.user_profiles : p.user_id = user
    THEN CHOOSE p \in d.user_profiles : p.user_id = user
    ELSE [user_id |-> user, technical_skills |-> {}, experience |-> <<>>,
          projects |-> <<>>]

\* C30: a successful upload leaves the uploader with a profile whose
\* technical_skills are the union of the skills it had and the parsed ones,
\* and whose experience and projects are the entries it had followed by the
\* parsed ones, duplicates included.
C30_ProfileSync ==
    [][ db'.last_id.resumes = db.last_id.resumes + 1 =>
          LET resume == CHOOSE r \in db'.resumes : r.id = db'.last_id.resumes
              parsed == resume.parsed_data
              before == ProfileOf(db, resume.user_id)
              after  == ProfileOf(db', resume.user_id)
          IN  /\ \E p \in db'.user_profiles : p.user_id = resume.user_id
              /\ after.technical_skills =
                    before.technical_skills \cup
                        { parsed.skills[i] : i \in 1..Len(parsed.skills) }
              /\ after.experience = before.experience \o parsed.experience
              /\ after.projects = before.projects \o parsed.projects
      ]_vars

---------------------------------------------------------------------------
(* Claims about the generated documents, checked under SpecRender.         *)

Rendered == svc_pc = "returned" /\ svc_call.op \in {"generate_pdf", "generate_docx"}

\* The headings of a generated document, in its order.
HeadingsOf(document) ==
    LET at == { i \in 1..Len(document) :
                  document[i].style \in {"CustomHeading", "Heading 2"} }
        Nth(k) == CHOOSE i \in at : Cardinality({ j \in at : j < i }) = k - 1
        Text(el) == IF "runs" \in DOMAIN el THEN el.runs[1].text ELSE el.text
    IN  [k \in 1..Cardinality(at) |-> Text(document[Nth(k)])]

\* The data hold an education: some field of the dictionary has a value.
HasEducation(education) ==
    /\ DictTruthy(education)
    /\ \E f \in DOMAIN education : Truthy(education[f])

\* The sections the data hold, in the order of the generator.
SectionsOf(data) ==
    (IF Truthy(data.summary) THEN << <<"S","u","m","m","a","r","y">> >> ELSE <<>>)
    \o (IF NonEmpty(data.skills) THEN << <<"S","k","i","l","l","s">> >> ELSE <<>>)
    \o (IF NonEmpty(data.experience) THEN << <<"E","x","p","e","r","i","e","n","c","e">> >> ELSE <<>>)
    \o (IF NonEmpty(data.projects) THEN << <<"P","r","o","j","e","c","t","s">> >> ELSE <<>>)
    \o (IF HasEducation(data.education) THEN << <<"E","d","u","c","a","t","i","o","n">> >> ELSE <<>>)

\* C21: generate_pdf and generate_docx return a document for every resume
\* data, and the headings of the document are those of the sections the data
\* hold, in the order summary, skills, experience, projects, education: a
\* resume without education gets no education section.
C21_SectionsAsPresent ==
    Rendered => HeadingsOf(svc_ret.document) = SectionsOf(svc_call.resume_data)

---------------------------------------------------------------------------
(* Claims about the generated files, checked under SpecFiles.              *)

\* The user a customized resume belongs to: the owner of its resume.
UserOf(d, c) == (CHOOSE r \in d.resumes : r.id = c.original_resume_id).user_id

\* The file at generated_file_path is the PDF of the record's own
\* customized_data.
OwnRendering(d, fs, c) ==
    \E f \in fs :
        /\ f.file_path = c.generated_file_path
        /\ f.document = PdfStory(WithName(c.customized_data, UserOf(d, c)))

\* C29: a customize request that is answered with a record has added that
\* one record and left the earlier records as they were, and the file at the
\* generated_file_path of every record, earlier ones included, is the
\* rendering of the customized_data of that record.
C29_OwnFilePerRecord ==
    [][ db'.last_id.customized_resumes = db.last_id.customized_resumes + 1 =>
          /\ db.customized_resumes \subseteq db'.customized_resumes
          /\ Cardinality(db'.customized_resumes) = Cardinality(db.customized_resumes) + 1
          /\ \A c \in db'.customized_resumes : OwnRendering(db', files', c)
      ]_vars

=============================================================================
